---- MODULE Spec2Model ----
(***************************************************************************)
(* node-ad-tools: the ActiveDirectory class (a thin wrapper around the     *)
(* ldapjs client).  The model covers the bind/search orchestration of      *)
(* loginUser, getAllGroups and getAllUsers, in the promise-constructor     *)
(* ("event") revision and in the async/await ("async") revision, and the   *)
(* static helper resolveBindError.  The ldapjs client is the environment:  *)
(* it answers bind and search and emits 'searchEntry', 'end' and 'error'.  *)
(***************************************************************************)
EXTENDS Integers, Sequences, FiniteSets, TLC

(***************************************************************************)
(* Bounds of the model.                                                    *)
(***************************************************************************)
\* longest lde_message (in characters) given to resolveBindError
MaxMsgLen == 4
\* most records one search emits before it ends
MaxRecords == 2
\* most 'error' events one client emits
MaxClientErrors == 1

(***************************************************************************)
(* JavaScript values.  Every value is a record tagged by t, so that any    *)
(* two values can be compared.  A string is the sequence of its            *)
(* characters.                                                             *)
(***************************************************************************)
Undefined == [t |-> "undefined"]
Str(s) == [t |-> "string", s |-> s]
Num(n) == [t |-> "number", n |-> n]
\* an Error object: its name and its lde_message property (Undefined when absent)
ErrObj(name, lde) == [t |-> "error", name |-> name, lde_message |-> lde]

\* null; an array of values; a plain object with the properties f; a Buffer
\* of the bytes b
Bool(b) == [t |-> "boolean", b |-> b]
Null == [t |-> "null"]
Arr(a) == [t |-> "array", a |-> a]
Obj(f) == [t |-> "object", f |-> f]
Buf(b) == [t |-> "buffer", b |-> b]

\* typeof v
TypeOf(v) ==
    IF v.t \in {"error", "null", "array", "object", "buffer", "date"}
    THEN "object"
    ELSE v.t

\* v[key] of a value that is neither undefined nor null: a property the value
\* does not have reads as undefined
Get(v, key) == IF v.t = "object" /\ key \in DOMAIN v.f THEN v.f[key] ELSE Undefined

\* reading a property of undefined or of null raises a TypeError
Nullish(v) == v.t \in {"undefined", "null"}

\* v.name and v.lde_message; a property a value does not have reads as undefined
PropName(v) == IF v.t = "error" THEN v.name ELSE "undefined"
PropLde(v) == IF v.t = "error" THEN v.lde_message ELSE Undefined

\* JavaScript truthiness
Truthy(v) ==
    CASE v.t = "undefined" -> FALSE
      [] v.t = "null" -> FALSE
      [] v.t = "string" -> Len(v.s) > 0
      [] v.t = "number" -> v.n # 0
      [] v.t = "boolean" -> v.b
      [] OTHER -> TRUE

\* does sub occur in s at position i (1-based)
MatchAt(s, sub, i) ==
    /\ i + Len(sub) - 1 <= Len(s)
    /\ \A k \in 1..Len(sub) : s[i + k - 1] = sub[k]

\* String.prototype.indexOf: the 0-based index of the first occurrence, or -1
RECURSIVE IndexOfFrom(_, _, _)
IndexOfFrom(s, sub, i) ==
    IF i + Len(sub) - 1 > Len(s) THEN -1
    ELSE IF MatchAt(s, sub, i) THEN i - 1
    ELSE IndexOfFrom(s, sub, i + 1)

IndexOf(s, sub) == IndexOfFrom(s, sub, 1)

\* String.prototype.split with a non-empty separator: the pieces of s between
\* the occurrences of sep, found from left to right
RECURSIVE SplitFrom(_, _, _, _)
SplitFrom(s, sep, start, i) ==
    IF i + Len(sep) - 1 > Len(s) THEN <<SubSeq(s, start, Len(s))>>
    ELSE IF MatchAt(s, sep, i)
    THEN <<SubSeq(s, start, i - 1)>> \o SplitFrom(s, sep, i + Len(sep), i + Len(sep))
    ELSE SplitFrom(s, sep, start, i + 1)

Split(s, sep) == SplitFrom(s, sep, 1, 1)

\* Array.prototype.join on an array of strings
RECURSIVE Join(_, _)
Join(parts, sep) ==
    IF Len(parts) = 0 THEN <<>>
    ELSE IF Len(parts) = 1 THEN parts[1]
    ELSE parts[1] \o sep \o Join(Tail(parts), sep)

\* the outcome of a function call: a returned value or a raised error
Ok(v) == [threw |-> FALSE, value |-> v]
Throw(e) == [threw |-> TRUE, error |-> e]

(***************************************************************************)
(* static resolveBindError(error)                                          *)
(***************************************************************************)
\* resolveBindError with && for || in its first test
resolveBindError_and(error) ==
    IF PropName(error) # "InvalidCredentialsError" /\ ~Truthy(PropLde(error))
    THEN "Unknown Auth Error"
    ELSE IF PropLde(error).t = "string" /\ IndexOf(PropLde(error).s, <<"7", "7", "5">>) # -1
    THEN "Account is locked out"
    ELSE "Invalid username or password"

resolveBindError(error) ==
    IF PropName(error) # "InvalidCredentialsError" \/ ~Truthy(PropLde(error))
    THEN "Unknown Auth Error"
    ELSE IF IndexOf(PropLde(error).s, <<"7", "7", "5">>) # -1
    THEN "Account is locked out"
    ELSE "Invalid username or password"

(***************************************************************************)
(* Values of the orchestration.                                            *)
(***************************************************************************)
\* the two revisions of loginUser / getAllGroups / getAllUsers
Versions == {"event", "async"}
Ops == {"loginUser", "getAllGroups", "getAllUsers"}
\* the slots in which a caller can have a call in flight
Calls == {1, 2}

\* credentials a caller can pass: a string, a number, nothing
StrCred == Str(<<"u">>)
Creds == {StrCred, Num(1), Undefined}

\* errors the ldapjs client reports (bind callback, search callback, the
\* search stream's 'error', the client's 'error')
ECreds == ErrObj("InvalidCredentialsError", Str(<<"5", "2", "e">>))
ELocked == ErrObj("InvalidCredentialsError", Str(<<"x", "7", "7", "5">>))
EConn == ErrObj("ConnectionError", Undefined)
EOther == ErrObj("OperationsError", Str(<<"x">>))
TransportErrors == {ECreds, ELocked, EConn, EOther}

\* the error _bind throws when username or password is not a string
CredTypeErr ==
    ErrObj("InvalidCredentialsError",
           Str(<<"U", "s", "r", "n", "a", "m", "e", " ", "a", "n", "d", " ",
                 "p", "a", "s", "s", "w", "o", "r", "d", " ", "m", "u", "s", "t", " ",
                 "b", "e", " ", "a", " ", "s", "t", "r", "i", "n", "g">>))
\* the errors the JavaScript runtime raises
TypeErr == ErrObj("TypeError", Undefined)
RefErr == ErrObj("ReferenceError", Undefined)

(***************************************************************************)
(* The static helpers: resolveGUID, resolveGroups, createUserObj,          *)
(* detectLogonType, cleanSama.                                             *)
(***************************************************************************)
GenericErr == ErrObj("Error", Undefined)

\* Number.prototype.toString(16) of a byte
HexDigits ==
    <<"0", "1", "2", "3", "4", "5", "6", "7", "8", "9", "a", "b", "c", "d", "e", "f">>

RECURSIVE ToString16(_)
ToString16(n) ==
    IF n < 16 THEN <<HexDigits[n + 1]>>
    ELSE ToString16(n \div 16) \o <<HexDigits[(n % 16) + 1]>>

\* byteString without the leading zero
ByteString_nopad(n) == ToString16(n)

\* byteString: the hex digits of one byte, with a leading zero below 16
ByteString(n) == IF n < 16 THEN <<"0">> \o ToString16(n) ELSE ToString16(n)

\* the variant that reads byte 3 twice and byte 0 never
guidFormat_repeated ==
    <<  <<3, 2, 1, 3>>, <<5, 4>>, <<7, 6>>, <<8, 9>>, <<10, 11, 12, 13, 14, 15>>  >>

\* guidFormat: the byte offsets of each of the five parts, in output order
guidFormat ==
    <<  <<3, 2, 1, 0>>, <<5, 4>>, <<7, 6>>, <<8, 9>>, <<10, 11, 12, 13, 14, 15>>  >>

\* binaryGUID[byte] is undefined past the end of the buffer, and undefined has
\* no toString: the part cannot be built
PartRaises(bin, part) == \E i \in 1..Len(part) : part[i] + 1 > Len(bin)

\* stringPart.join('') of one part
StringPart(bin, part) ==
    Join([i \in 1..Len(part) |-> ByteString(bin[part[i] + 1])], <<>>)

\* guidArray.join('-')
GuidString(bin) ==
    Join([p \in 1..Len(guidFormat) |-> StringPart(bin, guidFormat[p])], <<"-">>)

ObjectGUIDType == Str(<<"objectGUID">>)

\* entry.attributes.find(attribute => attribute.type === 'objectGUID')
RECURSIVE FindGUID(_, _)
FindGUID(attrs, i) ==
    IF i > Len(attrs) THEN Undefined
    ELSE IF Get(attrs[i], "type") = ObjectGUIDType THEN attrs[i]
    ELSE FindGUID(attrs, i + 1)

\* the lenient variant: an entry without a usable objectGUID yields ''
resolveGUID_lenient(entry) ==
    IF Nullish(entry) \/ Get(entry, "attributes").t # "array" THEN Ok(Str(<<>>))
    ELSE LET found == FindGUID(Get(entry, "attributes").a, 1)
         IN  IF Nullish(found) THEN Ok(Str(<<>>))
             ELSE Ok(Str(GuidString(Get(found, "buffers").a[1].b)))

resolveGUID(entry) ==
    IF Nullish(entry) THEN Throw(TypeErr)
    ELSE IF Get(entry, "attributes").t # "array" THEN Throw(GenericErr)
    ELSE LET found == FindGUID(Get(entry, "attributes").a, 1)
         IN  IF Nullish(found) THEN Throw(TypeErr)
             ELSE LET buffers == Get(found, "buffers")
                      binaryGUID == IF Len(buffers.a) = 0 THEN Undefined ELSE buffers.a[1]
                  IN  IF Nullish(binaryGUID) THEN Throw(TypeErr)
                      ELSE IF \E p \in 1..Len(guidFormat) :
                                  PartRaises(binaryGUID.b, guidFormat[p])
                      THEN Throw(TypeErr)
                      ELSE Ok(Str(GuidString(binaryGUID.b)))

CNToken == <<"C", "N", "=">>
Comma == <<",">>

\* item.indexOf('CN=') !== -1
HasCN(item) == IndexOf(item, CNToken) # -1

\* the variant that keeps the item as it is
AfterCN_whole(item) == Str(item)

\* item.split('CN=')[1]: undefined when the item holds no 'CN='
AfterCN(item) ==
    LET pieces == Split(item, CNToken)
    IN  IF Len(pieces) < 2 THEN Undefined ELSE Str(pieces[2])

\* memberOf.split(',').filter(item => item.indexOf('CN=') !== -1)
\*     .map(item => item.split('CN=')[1])
GroupsOfString(memberOf) ==
    LET kept == SelectSeq(Split(memberOf, Comma), HasCN)
    IN  [i \in 1..Len(kept) |-> AfterCN(kept[i])]

\* memberOf.map(group => group.split(',')[0].split('CN=')[1])
GroupsOfArray(memberOf) ==
    [i \in 1..Len(memberOf) |-> AfterCN(Split(memberOf[i].s, Comma)[1])]

\* the variant that answers a memberOf of another shape with undefined
resolveGroups_strict(entry) ==
    IF Nullish(entry) THEN Throw(TypeErr)
    ELSE IF TypeOf(Get(entry, "object")) # "object" THEN Throw(GenericErr)
    ELSE IF Nullish(Get(entry, "object")) THEN Throw(TypeErr)
    ELSE LET memberOf == Get(Get(entry, "object"), "memberOf")
         IN  CASE memberOf.t = "string" -> Ok(Arr(GroupsOfString(memberOf.s)))
               [] memberOf.t = "array" -> Ok(Arr(GroupsOfArray(memberOf.a)))
               [] OTHER -> Ok(Undefined)

resolveGroups(entry) ==
    IF Nullish(entry) THEN Throw(TypeErr)
    ELSE IF TypeOf(Get(entry, "object")) # "object" THEN Throw(GenericErr)
    ELSE IF Nullish(Get(entry, "object")) THEN Throw(TypeErr)
    ELSE LET memberOf == Get(Get(entry, "object"), "memberOf")
         IN  CASE memberOf.t = "undefined" -> Ok(Arr(<<>>))
               [] memberOf.t = "string" -> Ok(Arr(GroupsOfString(memberOf.s)))
               [] memberOf.t = "array" -> Ok(Arr(GroupsOfArray(memberOf.a)))
               [] OTHER -> Ok(Arr(<<>>))

\* the variant without the default
OrEmpty_raw(v) == v

\* value || ''
OrEmpty(v) == IF Truthy(v) THEN v ELSE Str(<<>>)

\* the variant that accepts any entry and reports what it can
createUserObj_lenient(entry) ==
    IF TypeOf(entry) # "object" \/ resolveGroups(entry).threw \/ resolveGUID(entry).threw
    THEN Ok(Obj([groups |-> Arr(<<>>)]))
    ELSE Ok(Obj([groups |-> resolveGroups(entry).value,
                 phone |-> Get(Get(entry, "object"), "telephoneNumber"),
                 name |-> Get(Get(entry, "object"), "name"),
                 mail |-> Get(Get(entry, "object"), "mail"),
                 guid |-> resolveGUID(entry).value,
                 dn |-> Get(entry, "objectName")]))

createUserObj(entry) ==
    IF TypeOf(entry) # "object" THEN Throw(GenericErr)
    ELSE IF resolveGroups(entry).threw THEN resolveGroups(entry)
    ELSE IF resolveGUID(entry).threw THEN resolveGUID(entry)
    ELSE Ok(Obj([groups |-> resolveGroups(entry).value,
                 phone |-> OrEmpty(Get(Get(entry, "object"), "telephoneNumber")),
                 name |-> OrEmpty(Get(Get(entry, "object"), "name")),
                 mail |-> OrEmpty(Get(Get(entry, "object"), "mail")),
                 guid |-> resolveGUID(entry).value,
                 dn |-> Get(entry, "objectName")]))

\* String.prototype.toUpperCase on the characters of the names
UpperChar(ch) ==
    CASE ch = "d" -> "D"
      [] ch = "c" -> "C"
      [] ch = "u" -> "U"
      [] OTHER -> ch

ToUpperCase(s) == [i \in 1..Len(s) |-> UpperChar(s[i])]

UPN == Str(<<"userPrincipalName">>)
DN == Str(<<"distinguishedName">>)
SAM == Str(<<"sAMAccountName">>)

\* the variant that compares 'DC=' without folding the case
detectLogonType_caseSensitive(username) ==
    IF IndexOf(username.s, <<"@">>) # -1 THEN UPN
    ELSE IF IndexOf(username.s, <<"D", "C", "=">>) # -1 THEN DN
    ELSE SAM

detectLogonType(username) ==
    IF IndexOf(username.s, <<"@">>) # -1 THEN UPN
    ELSE IF IndexOf(ToUpperCase(username.s), <<"D", "C", "=">>) # -1 THEN DN
    ELSE SAM

Backslash == <<"\\">>

\* the variant that returns what follows the first backslash
cleanSama_first(sAMA) ==
    LET parts == Split(sAMA.s, Backslash)
    IN  Str(parts[IF Len(parts) > 1 THEN 2 ELSE 1])

\* parts[parts.length - 1] of sAMA.split('\\')
cleanSama(sAMA) ==
    LET parts == Split(sAMA.s, Backslash)
    IN  Str(parts[Len(parts)])

\* date.slice(a, b) for 0 <= a <= b
Slice(s, a, b) == SubSeq(s, a + 1, IF b < Len(s) THEN b ELSE Len(s))

IsDigits(s, n) == Len(s) = n /\ \A i \in 1..n : \E d \in 1..10 : HexDigits[d] = s[i]

\* the number a string of decimal digits denotes
RECURSIVE ToNumber(_)
ToNumber(s) ==
    IF Len(s) = 0 THEN 0
    ELSE 10 * ToNumber(SubSeq(s, 1, Len(s) - 1))
         + (CHOOSE d \in 0..9 : HexDigits[d + 1] = s[Len(s)])

IsLeapYear(y) == y % 4 = 0 /\ (y % 100 # 0 \/ y % 400 = 0)

DaysInMonth(y, m) ==
    IF m = 2 THEN (IF IsLeapYear(y) THEN 29 ELSE 28)
    ELSE IF m \in {4, 6, 9, 11} THEN 30 ELSE 31

\* the leap years up to and with year n, and the days from 1970-01-01 to the
\* first day of year y
LeapYearsTo(n) == (n \div 4) - (n \div 100) + (n \div 400)
DayFromYear(y) == 365 * (y - 1970) + LeapYearsTo(y - 1) - LeapYearsTo(1969)

RECURSIVE DaysBeforeMonth(_, _)
DaysBeforeMonth(y, m) ==
    IF m = 1 THEN 0 ELSE DaysBeforeMonth(y, m - 1) + DaysInMonth(y, m - 1)

\* a Date: the day since 1970-01-01 UTC, the second and the millisecond of
\* that day; Invalid Date has no time value
InvalidDate == [t |-> "date", valid |-> FALSE, day |-> 0, sec |-> 0, ms |-> 0]

\* the Date of a time value given as days and seconds: a day past the month's
\* end and the hour 24 run over into the days that follow
MakeDate(y, m, d, h, mi, sc, ms) ==
    LET days == DayFromYear(y) + DaysBeforeMonth(y, m) + (d - 1)
        secs == 3600 * h + 60 * mi + sc
    IN  [t |-> "date", valid |-> TRUE, day |-> days + (secs \div 86400),
         sec |-> secs % 86400, ms |-> ms]

\* new Date(text) for a text of the form YYYY-MM-DDTHH:mm:ss.sssZ: the fields
\* are read as UTC; a text of another form, a month outside 1..12, a day
\* outside 1..31, a minute or second above 59 and an hour above 23 that is
\* not 24:00:00.000 give Invalid Date
NewDate(text) ==
    IF /\ Len(text) = 24
       /\ IsDigits(SubSeq(text, 1, 4), 4) /\ text[5] = "-"
       /\ IsDigits(SubSeq(text, 6, 7), 2) /\ text[8] = "-"
       /\ IsDigits(SubSeq(text, 9, 10), 2) /\ text[11] = "T"
       /\ IsDigits(SubSeq(text, 12, 13), 2) /\ text[14] = ":"
       /\ IsDigits(SubSeq(text, 15, 16), 2) /\ text[17] = ":"
       /\ IsDigits(SubSeq(text, 18, 19), 2) /\ text[20] = "."
       /\ IsDigits(SubSeq(text, 21, 23), 3) /\ text[24] = "Z"
    THEN LET y == ToNumber(SubSeq(text, 1, 4))
             m == ToNumber(SubSeq(text, 6, 7))
             d == ToNumber(SubSeq(text, 9, 10))
             h == ToNumber(SubSeq(text, 12, 13))
             mi == ToNumber(SubSeq(text, 15, 16))
             sc == ToNumber(SubSeq(text, 18, 19))
             ms == ToNumber(SubSeq(text, 21, 23))
         IN  IF /\ m \in 1..12 /\ d \in 1..31 /\ mi \in 0..59 /\ sc \in 0..59
                /\ (h \in 0..23 \/ (h = 24 /\ mi = 0 /\ sc = 0 /\ ms = 0))
             THEN MakeDate(y, m, d, h, mi, sc, ms)
             ELSE InvalidDate
    ELSE InvalidDate

\* `${year}-${month}-${day}T${hour}:${min}:${sec}.000Z`
DateText(year, month, day, hour, min, sec) ==
    year \o <<"-">> \o month \o <<"-">> \o day \o <<"T">> \o hour \o <<":">> \o min
    \o <<":">> \o sec \o <<".", "0", "0", "0", "Z">>

\* the variant that reads the day before the month
convertToDate_dayFirst(date) ==
    IF date.t # "string" THEN Throw(TypeErr)
    ELSE Ok(NewDate(DateText(Slice(date.s, 0, 4), Slice(date.s, 6, 8), Slice(date.s, 4, 6),
                             Slice(date.s, 8, 10), Slice(date.s, 10, 12),
                             Slice(date.s, 12, 14))))

\* convertToDate: date.slice raises a TypeError on a value that is no string
convertToDate(date) ==
    IF date.t # "string" THEN Throw(TypeErr)
    ELSE Ok(NewDate(DateText(Slice(date.s, 0, 4), Slice(date.s, 4, 6), Slice(date.s, 6, 8),
                             Slice(date.s, 8, 10), Slice(date.s, 10, 12),
                             Slice(date.s, 12, 14))))

\* the reference value of the tests, 10 E7 D4 17 4D 62 78 49 90 0B 85 49 CB 75 36 99
ReferenceBytes ==
    <<16, 231, 212, 23, 77, 98, 120, 73, 144, 11, 133, 73, 203, 117, 54, 153>>

OtherAttribute == Obj([type |-> Str(<<"cn">>), buffers |-> Arr(<<Buf(<<97>>)>>)])
GUIDAttribute(b) == Obj([type |-> ObjectGUIDType, buffers |-> Arr(<<Buf(b)>>)])

\* search entries as ldapjs delivers them: i tells them apart, g says whether
\* the attributes hold an objectGUID (resolveGUID raises a TypeError without
\* one)
Entry(i, g) ==
    Obj([object |->
             Obj([name |-> Str(<<"g", HexDigits[i + 1]>>),
                  dn |-> Str(<<"CN=g", HexDigits[i + 1], ",DC=d">>),
                  description |-> Str(<<"group ", HexDigits[i + 1]>>),
                  whenCreated |-> Str(<<"2", "0", "1", "9", "0", "1", "0", "2", "0", "3",
                                        "0", "4", "0", HexDigits[i + 1], ".", "0", "Z">>),
                  whenChanged |-> Str(<<"2", "0", "2", "0", "1", "1", "1", "2", "1", "3",
                                        "1", "4", "1", HexDigits[i + 1], ".", "0", "Z">>),
                  mail |-> Str(<<"m", HexDigits[i + 1], "@d">>)]),
         attributes |->
             Arr(IF g THEN <<OtherAttribute, GUIDAttribute([ReferenceBytes EXCEPT ![1] = i])>>
                 ELSE <<OtherAttribute>>),
         objectName |-> Str(<<"C", "N", "=", "g", HexDigits[i + 1], ",", "D", "C", "=", "d">>)])
Entries == {Entry(1, TRUE), Entry(2, FALSE)}

\* records.map(entry => entry.object.name): one name of the plain result
GroupName(r) == Get(Get(r, "object"), "name")

\* the promise-constructor getAllGroups: resolveGroups of an entry whose
\* memberOf holds the objectName of every record
GroupCNs(records) ==
    resolveGroups(Obj([object |->
        Obj([memberOf |-> Arr([i \in 1..Len(records) |-> Get(records[i], "objectName")])])])).value.a

\* getDetails: the detailed record of one entry; resolveGUID and
\* convertToDate may raise
GroupDetail(r) ==
    LET object == Get(r, "object")
        guid == resolveGUID(r)
        created == convertToDate(Get(object, "whenCreated"))
        changed == convertToDate(Get(object, "whenChanged"))
    IN  IF guid.threw THEN guid
        ELSE IF created.threw THEN created
        ELSE IF changed.threw THEN changed
        ELSE Ok(Obj([name |-> Get(object, "name"), dn |-> Get(object, "dn"),
                     guid |-> guid.value, description |-> Get(object, "description"),
                     created |-> created.value, changed |-> changed.value]))

\* records.map(f) where f may raise: the array of the values, or the first
\* error raised
RECURSIVE MapOutcome(_)
MapOutcome(outcomes) ==
    IF Len(outcomes) = 0 THEN Ok(<<>>)
    ELSE IF Head(outcomes).threw THEN Head(outcomes)
    ELSE LET rest == MapOutcome(Tail(outcomes))
         IN  IF rest.threw THEN rest ELSE Ok(<<Head(outcomes).value>> \o rest.value)

\* the constructor of the earlier revision: a suffix of one character is not
\* taken
ActiveDirectory_earlier(config) ==
    [base |-> IF Len(config.suffix.s) > 1 /\ Len(config.base.s) = 0
              THEN config.suffix
              ELSE config.base,
     searchOptions |-> config.searchOptions,
     ldapjsSettings |-> [url |-> config.url, idleTimeout |-> config.idleTimeout,
                         tlsOptions |-> config.tlsOptions]]

\* the constructor: base, or the legacy suffix when only that is given, the
\* search options and the settings of ldap.createClient
ActiveDirectory(config) ==
    [base |-> IF Len(config.suffix.s) # 0 /\ Len(config.base.s) = 0
              THEN config.suffix
              ELSE config.base,
     searchOptions |-> config.searchOptions,
     ldapjsSettings |-> [url |-> config.url, idleTimeout |-> config.idleTimeout,
                         tlsOptions |-> config.tlsOptions]]

\* a configuration that gives url and base and leaves the rest to the
\* defaults of the constructor
DefaultConfig ==
    [url |-> Str(<<"ldap://dc">>), suffix |-> Str(<<>>), base |-> Str(<<"dc=d">>),
     searchOptions |-> Obj([scope |-> Str(<<"sub">>)]), idleTimeout |-> Num(3000),
     tlsOptions |-> Obj(<<>>)]

NoOverrides == [base |-> FALSE, search |-> FALSE]

(***************************************************************************)
(* State.                                                                  *)
(***************************************************************************)
VARIABLES
    callers,  \* the slots callers use
    call,     \* per slot, the state of the call in flight: see IdleCall
    this,     \* the ActiveDirectory instance the calls are made on
    past,     \* whether a completed call was given a base, a search override
    arg,      \* input of the pure function under check
    ret       \* its result

vars == <<callers, call, this, past, arg, ret>>

\* The fields of call[c]:
\*   ver, op                    revision and method the call runs
\*   username, password, flag   its arguments (flag: detailed / formatted)
\*   customBase, customSearch   its optional arguments
\*   base, search               the method's local constants of these names
\*                              (customSearch in getAllGroups, getAllUsers)
\*   bindUser                   the name given to client.bind
\*   sentBase, sentSearch       the base and the options given to
\*                              client.search
\*   created, binds, searches, unbinds
\*                              number of ldap.createClient, client.bind,
\*                              client.search, client.unbind invocations
\*   errHandler                 the call's client.on('error') is registered
\*   clientErrs                 number of 'error' events the client emitted
\*   tp                         what the client owes the call:
\*        "none" no client, "bind" bind callback pending, "searchCb" search
\*        callback pending, "stream" search result stream open, "open"
\*        client exists and nothing is pending, "dead" the client answers
\*        nothing any more
\*   emitted                    the entries the search emitted, in order
\*   acc                        accumulator (_search), groups, users
\*   promise, result            the promise the call returned and its value
\*   unbindsAtSettle            unbinds at the moment the promise settled
\*   uncaught                   an exception escaped a callback
\*   bindErr, searchErr, streamErr
\*                              the error the client gave the bind callback,
\*                              the search callback, the stream's 'error'
\*   ended                      the stream emitted 'end'
IdleCall ==
    [ver |-> "async", op |-> "loginUser", username |-> Undefined,
     password |-> Undefined, flag |-> Undefined, customBase |-> Undefined,
     customSearch |-> Undefined, base |-> Undefined, search |-> Undefined,
     bindUser |-> Undefined, sentBase |-> Undefined, sentSearch |-> Undefined,
     created |-> 0, errHandler |-> FALSE,
     binds |-> 0, searches |-> 0, unbinds |-> 0, clientErrs |-> 0, tp |-> "none",
     emitted |-> <<>>, acc |-> <<>>, promise |-> "none", result |-> Undefined,
     unbindsAtSettle |-> 0, uncaught |-> FALSE, bindErr |-> Undefined,
     searchErr |-> Undefined, streamErr |-> Undefined, ended |-> FALSE]

\* ret before and after the function under check is applied
NotApplied == [applied |-> FALSE]
Applied(v) == [applied |-> TRUE, value |-> v]

Init ==
    /\ callers = {1}
    /\ this = ActiveDirectory(DefaultConfig)
    /\ past = NoOverrides
    /\ call = [c \in Calls |-> IdleCall]
    /\ arg = Undefined
    /\ ret = NotApplied

\* an uncaught exception ends the Node process
Crashed == \E c \in Calls : call[c].uncaught

(***************************************************************************)
(* Promise and client primitives.                                          *)
(***************************************************************************)
\* resolve(v) / return v: settles a pending promise, otherwise a no-op
Resolve(k, v) ==
    IF k.promise = "pending"
    THEN [k EXCEPT !.promise = "resolved", !.result = v, !.unbindsAtSettle = k.unbinds]
    ELSE k

\* reject(v)
Reject(k, v) ==
    IF k.promise = "pending"
    THEN [k EXCEPT !.promise = "rejected", !.result = v, !.unbindsAtSettle = k.unbinds]
    ELSE k

\* client.unbind()
Unbind(k) == [k EXCEPT !.unbinds = @ + 1]

\* ldap.createClient(this.ldapjsSettings)
CreateClient(k) == [k EXCEPT !.created = @ + 1, !.tp = "open"]

\* client.on('error', ...)
OnClientError(k) == [k EXCEPT !.errHandler = TRUE]

\* the catch block of the async methods
Failure(err) == [success |-> FALSE, message |-> resolveBindError(err), error |-> err]

\* the message of the 'error' handlers
ErrorResolving(o) ==
    CASE o = "loginUser" -> "Error resolving account"
      [] o = "getAllGroups" -> "Error resolving groups"
      [] o = "getAllUsers" -> "Error resolving users"

(***************************************************************************)
(* The async revision: _bind, _search, loginUser, getAllGroups,            *)
(* getAllUsers.  Each operator maps the call's state before a step to its  *)
(* state after it.                                                         *)
(***************************************************************************)
\* detectLogonType(username) reads username.indexOf: a TypeError on a non-string
detectLogonTypeThrows(u) == TypeOf(u) # "string"

\* _bind: the check of the argument types
BindThrows(u, p) == TypeOf(u) # "string" \/ TypeOf(p) # "string"

\* _bind: client.bind(username, password, callback)
IssueBind(k) == [k EXCEPT !.binds = @ + 1, !.tp = "bind", !.bindUser = k.username]

\* client.search(base, search, callback)
IssueSearch(k, base) ==
    [k EXCEPT !.searches = @ + 1, !.tp = "searchCb", !.sentBase = base,
              !.sentSearch = k.search]

\* the own enumerable properties of a value, which an object spread copies:
\* those of an object, the characters of a string under their indices,
\* nothing of undefined, null or a number
OwnProps(v) ==
    CASE v.t = "object" -> v.f
      [] v.t = "string" ->
             [key \in {HexDigits[i] : i \in 1..Len(v.s)} |->
                 Str(<<v.s[CHOOSE i \in 1..Len(v.s) : HexDigits[i] = key]>>)]
      [] OTHER -> <<>>

\* {...a, ...b} on the properties a and b
Spread(a, b) ==
    [key \in DOMAIN a \cup DOMAIN b |-> IF key \in DOMAIN b THEN b[key] ELSE a[key]]

\* Number.prototype.toString() of a natural number
RECURSIVE ToString10(_)
ToString10(n) ==
    IF n < 10 THEN <<HexDigits[n + 1]>>
    ELSE ToString10(n \div 10) \o <<HexDigits[(n % 10) + 1]>>

\* the text of a value inside a template literal
ToStr(v) ==
    CASE v.t = "string" -> v.s
      [] v.t = "number" -> ToString10(v.n)
      [] OTHER -> <<v.t>>

\* `(${usernameType}=${searchUser})`
UserFilter(usernameType, searchUser) ==
    Str(<<"(">> \o ToStr(usernameType) \o <<"=">> \o ToStr(searchUser) \o <<")">>)

GroupFilter == Str(<<"(objectCategory=group)">>)
AllUsersFilter == Str(<<"(&(objectClass=user)(objectCategory=person))">>)

\* the variant without the backwards compatibility: the flag as it was passed
Flag_asPassed(customBase, flag) == flag

\* For backwards compatability until v2: a boolean in the place of
\* customBase is the flag when the flag itself was omitted
Flag(customBase, flag) ==
    IF flag.t = "undefined" /\ TypeOf(customBase) = "boolean" THEN customBase ELSE flag

\* the attributes getAllGroups requests
GroupAttributes(detailed) ==
    IF Truthy(detailed)
    THEN Arr(<<Str(<<"name">>), Str(<<"dn">>), Str(<<"objectGUID">>),
               Str(<<"description">>), Str(<<"whenCreated">>), Str(<<"whenChanged">>)>>)
    ELSE Str(<<"name">>)

\* the variant of the earlier revision: a filter of the instance is kept and
\* the filter of the user is set only without one
loginUserSearch_configFilter(username, customSearch) ==
    LET usernameType == detectLogonType(username)
        searchUser == IF usernameType = SAM THEN cleanSama(username) ELSE username
    IN  IF ~Truthy(Get(this.searchOptions, "filter"))
        THEN Obj(Spread(Spread(OwnProps(this.searchOptions),
                               [filter |-> UserFilter(usernameType, searchUser)]),
                        OwnProps(customSearch)))
        ELSE Obj(Spread(OwnProps(this.searchOptions), OwnProps(customSearch)))

\* the variant that searches for the name as it was given
loginUserSearch_uncleaned(username, customSearch) ==
    Obj(Spread(Spread(OwnProps(this.searchOptions),
                      [filter |-> UserFilter(detectLogonType(username), username)]),
               OwnProps(customSearch)))

\* loginUser: the search options
loginUserSearch(username, customSearch) ==
    LET usernameType == detectLogonType(username)
        searchUser == IF usernameType = SAM THEN cleanSama(username) ELSE username
    IN  Obj(Spread(Spread(OwnProps(this.searchOptions),
                          [filter |-> UserFilter(usernameType, searchUser)]),
                   OwnProps(customSearch)))

\* the variant that lets the filter of the instance win
getAllGroupsSearch_configFilter(detailed) ==
    Obj(Spread(Spread([filter |-> GroupFilter], OwnProps(this.searchOptions)),
               [attributes |-> GroupAttributes(detailed)]))

\* getAllGroups: customSearch
getAllGroupsSearch(detailed) ==
    Obj(Spread(Spread(OwnProps(this.searchOptions), [filter |-> GroupFilter]),
               [attributes |-> GroupAttributes(detailed)]))

\* getAllUsers: customSearch
getAllUsersSearch == Obj(Spread(OwnProps(this.searchOptions), [filter |-> AllUsersFilter]))

\* the variant that keeps searching the base an earlier call overrode
SearchBase_sticky(customBase) ==
    IF customBase.t = "string" /\ Truthy(customBase) THEN customBase
    ELSE IF past.base THEN Str(<<"ou=x">>)
    ELSE this.base

\* the variant that takes every string, the empty one too
SearchBase_anyString(customBase) ==
    IF customBase.t = "string" THEN customBase ELSE this.base

\* _search: the base
SearchBase(customBase) ==
    IF customBase.t = "string" /\ Truthy(customBase) THEN customBase ELSE this.base

\* loginUser up to its first await
loginUserAsync(k) ==
    LET k1 == CreateClient(k) IN
    IF detectLogonTypeThrows(k.username)
    THEN Resolve(k1, Failure(TypeErr))
    ELSE LET k2 == OnClientError(
                       [k1 EXCEPT !.search = loginUserSearch(k.username, k.customSearch)])
         IN
         IF BindThrows(k.username, k.password)
         THEN Resolve(k2, Failure(CredTypeErr))
         ELSE IssueBind(k2)

\* getAllGroupsAsync with _bind called outside the try block
getAllGroupsAsync_throws(k) ==
    LET k2 == OnClientError(CreateClient(k)) IN
    IF BindThrows(k.username, k.password)
    THEN Reject(k2, CredTypeErr)
    ELSE IssueBind(k2)

\* getAllGroups up to its first await
getAllGroupsAsync(k) ==
    LET k2 == OnClientError(CreateClient([k EXCEPT !.search = getAllGroupsSearch(Flag(k.customBase, k.flag))])) IN
    IF BindThrows(k.username, k.password)
    THEN Resolve(k2, Failure(CredTypeErr))
    ELSE IssueBind(k2)

\* getAllUsers up to its first await
getAllUsersAsync(k) ==
    LET k2 == OnClientError(CreateClient([k EXCEPT !.search = getAllUsersSearch])) IN
    IF BindThrows(k.username, k.password)
    THEN Resolve(k2, Failure(CredTypeErr))
    ELSE IssueBind(k2)

\* the bind callback without error: await this._bind returns, _search runs
BindAcceptedAsync(k) == IssueSearch(k, SearchBase(k.customBase))

\* BindRejectedAsync without the catch block: the rejection reaches the caller
BindRejectedAsync_uncaught(k, e) == Reject([k EXCEPT !.tp = "open"], e)

\* the variant that goes on to the search after a rejected bind
BindRejectedAsync_searches(k, e) == IssueSearch(k, SearchBase(k.customBase))

\* the bind callback with err: _bind rejects, the catch block returns
BindRejectedAsync(k, e) == Resolve([k EXCEPT !.tp = "open"], Failure(e))

\* the search callback with error: reject(err) names an undefined variable,
\* a ReferenceError.  Raised inside the promise executor (callback invoked
\* during client.search) it rejects _search; raised in a later turn of the
\* event loop it is an uncaught exception.
SearchFailedAsync(k, e, sync) ==
    IF sync
    THEN Resolve([k EXCEPT !.tp = "open"], Failure(RefErr))
    ELSE [k EXCEPT !.tp = "open", !.uncaught = TRUE]

\* the search callback with res: the three res.on(...) registrations
SearchStartedAsync(k) == [k EXCEPT !.tp = "stream"]

\* the variant with one accumulator for all calls, that of the first slot
EntryAsync_shared(k, r) == [k EXCEPT !.acc = Append(call[1].acc, r)]

\* the variant that puts the newest record first
EntryAsync_prepend(k, r) == [k EXCEPT !.acc = <<r>> \o @]

\* res 'searchEntry'
EntryAsync(k, r) == [k EXCEPT !.acc = Append(@, r)]

\* loginUserReturn without the [0]: the whole array as entry
loginUserReturn_array(records) == [success |-> TRUE, entry |-> records]

\* loginUserReturn reporting an empty search as a failure
loginUserReturn_emptyFails(records) ==
    IF Len(records) = 0
    THEN [success |-> FALSE, message |-> "Error resolving account"]
    ELSE [success |-> TRUE, entry |-> records[1]]

\* loginUserReturn taking the last record
loginUserReturn_last(records) ==
    [success |-> TRUE,
     entry |-> IF Len(records) > 0 THEN records[Len(records)] ELSE Undefined]

\* what loginUser returns after await this._search
loginUserReturn(records) ==
    [success |-> TRUE, entry |-> IF Len(records) > 0 THEN records[1] ELSE Undefined]

\* what getAllGroups does after await this._search; getDetails raises on an
\* entry it cannot decode and the catch block returns
getAllGroupsReturn(records, detailed) ==
    IF Truthy(detailed)
    THEN LET details == MapOutcome([i \in 1..Len(records) |-> GroupDetail(records[i])])
         IN  IF details.threw THEN Failure(details.error)
             ELSE [success |-> TRUE, groups |-> details.value]
    ELSE [success |-> TRUE, groups |-> [i \in 1..Len(records) |-> GroupName(records[i])]]

\* what getAllUsers does after await this._search
getAllUsersReturn(records, formatted) ==
    IF Truthy(formatted)
    THEN LET users == MapOutcome([i \in 1..Len(records) |-> createUserObj(records[i])])
         IN  IF users.threw THEN Failure(users.error)
             ELSE [success |-> TRUE, users |-> users.value]
    ELSE [success |-> TRUE, users |-> records]

\* res 'end': resolve(accumulator), then the rest of the method
EndAsync(k) ==
    LET k1 == [k EXCEPT !.tp = "open"] IN
    CASE k.op = "loginUser" -> Resolve(k1, loginUserReturn(k.acc))
      [] k.op = "getAllGroups" -> Resolve(k1, getAllGroupsReturn(k.acc, Flag(k.customBase, k.flag)))
      [] k.op = "getAllUsers" -> Resolve(k1, getAllUsersReturn(k.acc, Flag(k.customBase, k.flag)))

\* StreamErrorAsync returning the raw cause alone, without resolveBindError
StreamErrorAsync_raw(k, e) ==
    Resolve([k EXCEPT !.tp = "open"], [success |-> FALSE, error |-> e])

\* res 'error': reject(error), the catch block returns
StreamErrorAsync(k, e) == Resolve([k EXCEPT !.tp = "open"], Failure(e))

\* client 'error': the handler unbinds; the object it returns goes nowhere
ClientErrorAsync(k, e) == Unbind(k)

(***************************************************************************)
(* The event revision: every method is one promise constructor.            *)
(***************************************************************************)
\* const base
BaseEvent(customBase) == IF customBase.t = "string" THEN customBase ELSE this.base

\* customSearch: loginUser keeps a configured filter and has
\* (userPrincipalName=username) without one; getAllGroups and getAllUsers set
\* their own
SearchEvent(op, username) ==
    CASE op = "loginUser" ->
             IF ~Truthy(Get(this.searchOptions, "filter"))
             THEN Obj(Spread(OwnProps(this.searchOptions),
                             [filter |-> UserFilter(UPN, username)]))
             ELSE Obj(OwnProps(this.searchOptions))
      [] op = "getAllGroups" ->
             Obj(Spread(OwnProps(this.searchOptions), [filter |-> GroupFilter]))
      [] op = "getAllUsers" ->
             Obj(Spread(OwnProps(this.searchOptions), [filter |-> AllUsersFilter]))

\* the method body: createClient, the client.on(...) registrations and
\* client.bind.  ldapjs may raise a TypeError on a non-string argument; raised
\* inside the promise executor it rejects the promise.
StartEvent(k, libThrows) ==
    LET k2 == OnClientError(CreateClient(
                  [k EXCEPT !.base = BaseEvent(k.customBase),
                            !.search = SearchEvent(k.op, k.username)])) IN
    IF BindThrows(k.username, k.password) /\ libThrows
    THEN Reject(k2, TypeErr)
    ELSE IssueBind(k2)

\* the bind callback without err: client.search
BindAcceptedEvent(k) == IssueSearch(k, k.base)

\* the bind callback with err
BindRejectedEvent(k, e) ==
    Resolve([k EXCEPT !.tp = "open"],
            [success |-> FALSE, message |-> resolveBindError(e), error |-> e])

\* client.on('error')
ClientErrorEvent(k, e) ==
    Reject(Unbind(k), [success |-> FALSE, message |-> ErrorResolving(k.op), error |-> e])

\* the search callback with error: client.emit('error', error), then res.on
\* on the undefined res, a TypeError in the bind callback's turn
SearchFailedEvent(k, e) ==
    [ClientErrorEvent([k EXCEPT !.tp = "open"], e) EXCEPT !.uncaught = TRUE]

\* the search callback with res
SearchStartedEvent(k) == [k EXCEPT !.tp = "stream"]

\* client.on('searchEntry')
EntryEvent(k, r) ==
    IF k.op = "loginUser"
    THEN Resolve(Unbind(k), [success |-> TRUE, entry |-> r])
    ELSE [k EXCEPT !.acc = Append(@, r)]

\* client.on('end')
EndEvent(k) ==
    LET k1 == Unbind([k EXCEPT !.tp = "open"]) IN
    CASE k.op = "loginUser" ->
             Resolve(k1, [success |-> FALSE, message |-> "Error resolving account"])
      [] k.op = "getAllGroups" ->
             Resolve(k1, [success |-> TRUE, groups |-> GroupCNs(k.acc)])
      [] k.op = "getAllUsers" ->
             Resolve(k1, [success |-> TRUE, users |-> k.acc])

\* res 'error': client.emit('error', error)
StreamErrorEvent(k, e) == ClientErrorEvent([k EXCEPT !.tp = "open"], e)

(***************************************************************************)
(* Actions.  Start is the caller; Return is the caller dropping a settled  *)
(* call; the others are the ldapjs client delivering a callback or event.  *)
(***************************************************************************)
\* the flag values a method takes: only the async getAll* have the parameter
Flags(v, o) ==
    IF v = "async" /\ o # "loginUser" THEN {Undefined, Bool(FALSE), Bool(TRUE)}
    ELSE {Undefined}

\* the method body up to its first wait
Begin(k, libThrows) ==
    IF k.ver = "event" THEN StartEvent(k, libThrows)
    ELSE CASE k.op = "loginUser" -> loginUserAsync(k)
           [] k.op = "getAllGroups" -> getAllGroupsAsync(k)
           [] k.op = "getAllUsers" -> getAllUsersAsync(k)

\* the search overrides a method takes: only the async loginUser has the
\* parameter
Overrides(v, o, searches) ==
    IF v = "async" /\ o = "loginUser" THEN searches ELSE {Undefined}

\* a caller invokes a method with credentials from users and passwords, a
\* base from bases and a search override from searches
StartWith(c, users, passwords, bases, searches) ==
    /\ ~Crashed
    /\ c \in callers
    /\ call[c].promise = "none"
    /\ \E v \in Versions, o \in Ops, u \in users, p \in passwords, libThrows \in BOOLEAN :
         \E f \in Flags(v, o), cb \in bases, cs \in Overrides(v, o, searches) :
           LET k == [IdleCall EXCEPT !.ver = v, !.op = o, !.username = u,
                                     !.password = p, !.flag = f, !.customBase = cb,
                                     !.customSearch = cs, !.promise = "pending"]
           IN call' = [call EXCEPT ![c] = Begin(k, libThrows)]
    /\ UNCHANGED <<callers, this, past, arg, ret>>

\* calls with credentials of every type and without the optional arguments
Start(c) == StartWith(c, Creds, Creds, {Undefined}, {Undefined})

BindAccept(c) ==
    /\ ~Crashed
    /\ call[c].tp = "bind"
    /\ call' = [call EXCEPT ![c] =
                  IF @.ver = "async" THEN BindAcceptedAsync(@) ELSE BindAcceptedEvent(@)]
    /\ UNCHANGED <<callers, this, past, arg, ret>>

BindReject(c) ==
    /\ ~Crashed
    /\ call[c].tp = "bind"
    /\ \E e \in TransportErrors :
         LET k == [call[c] EXCEPT !.bindErr = e] IN
         call' = [call EXCEPT ![c] =
                    IF k.ver = "async" THEN BindRejectedAsync(k, e)
                    ELSE BindRejectedEvent(k, e)]
    /\ UNCHANGED <<callers, this, past, arg, ret>>

SearchFail(c) ==
    /\ ~Crashed
    /\ call[c].tp = "searchCb"
    /\ \E e \in TransportErrors, sync \in BOOLEAN :
         LET k == [call[c] EXCEPT !.searchErr = e] IN
         call' = [call EXCEPT ![c] =
                    IF k.ver = "async" THEN SearchFailedAsync(k, e, sync)
                    ELSE SearchFailedEvent(k, e)]
    /\ UNCHANGED <<callers, this, past, arg, ret>>

SearchStart(c) ==
    /\ ~Crashed
    /\ call[c].tp = "searchCb"
    /\ call' = [call EXCEPT ![c] =
                  IF @.ver = "async" THEN SearchStartedAsync(@) ELSE SearchStartedEvent(@)]
    /\ UNCHANGED <<callers, this, past, arg, ret>>

SearchEntry(c) ==
    /\ ~Crashed
    /\ call[c].tp = "stream"
    /\ Len(call[c].emitted) < MaxRecords
    /\ \E r \in Entries :
         LET k == [call[c] EXCEPT !.emitted = Append(@, r)] IN
         call' = [call EXCEPT ![c] =
                    IF k.ver = "async" THEN EntryAsync(k, r) ELSE EntryEvent(k, r)]
    /\ UNCHANGED <<callers, this, past, arg, ret>>

SearchEnd(c) ==
    /\ ~Crashed
    /\ call[c].tp = "stream"
    /\ LET k == [call[c] EXCEPT !.ended = TRUE] IN
       call' = [call EXCEPT ![c] = IF k.ver = "async" THEN EndAsync(k) ELSE EndEvent(k)]
    /\ UNCHANGED <<callers, this, past, arg, ret>>

SearchError(c) ==
    /\ ~Crashed
    /\ call[c].tp = "stream"
    /\ \E e \in TransportErrors :
         LET k == [call[c] EXCEPT !.streamErr = e] IN
         call' = [call EXCEPT ![c] =
                    IF k.ver = "async" THEN StreamErrorAsync(k, e)
                    ELSE StreamErrorEvent(k, e)]
    /\ UNCHANGED <<callers, this, past, arg, ret>>

\* The client emits 'error'.  Afterwards it may answer what is pending or
\* never answer again (lost).  Without a registered 'error' handler the
\* emit itself raises.
ClientError(c) ==
    /\ ~Crashed
    /\ call[c].tp \in {"bind", "searchCb", "stream", "open"}
    /\ call[c].clientErrs < MaxClientErrors
    /\ \E e \in TransportErrors, lost \in BOOLEAN :
         LET k == [call[c] EXCEPT !.clientErrs = @ + 1,
                                  !.tp = IF lost THEN "dead" ELSE @]
         IN call' = [call EXCEPT ![c] =
                       IF ~k.errHandler THEN [k EXCEPT !.uncaught = TRUE]
                       ELSE IF k.ver = "async" THEN ClientErrorAsync(k, e)
                       ELSE ClientErrorEvent(k, e)]
    /\ UNCHANGED <<callers, this, past, arg, ret>>

\* the caller has its result and makes the slot free for its next call
Return(c) ==
    /\ ~Crashed
    /\ call[c].promise \in {"resolved", "rejected"}
    /\ call' = [call EXCEPT ![c] = IdleCall]
    /\ past' = [base |-> past.base \/ call[c].customBase # Undefined,
                search |-> past.search \/ call[c].customSearch # Undefined]
    /\ UNCHANGED <<callers, this, arg, ret>>

Next ==
    \E c \in Calls :
        \/ Start(c)
        \/ BindAccept(c)
        \/ BindReject(c)
        \/ SearchFail(c)
        \/ SearchStart(c)
        \/ SearchEntry(c)
        \/ SearchEnd(c)
        \/ SearchError(c)
        \/ ClientError(c)
        \/ Return(c)

Spec == Init /\ [][Next]_vars

\* The ldapjs client answers every request it has not lost: a pending bind
\* gets its callback, a pending search its callback, an open stream its
\* 'end' or 'error'.
Fairness ==
    \A c \in Calls :
        /\ WF_vars(BindAccept(c) \/ BindReject(c))
        /\ WF_vars(SearchFail(c) \/ SearchStart(c))
        /\ WF_vars(SearchEnd(c) \/ SearchError(c))

FairSpec == Spec /\ Fairness

(***************************************************************************)
(* Calls with the optional arguments, on instances of several              *)
(* configurations, against a directory that answers every request.         *)
(***************************************************************************)
\* search options of a configuration: the default, and options with a
\* filter, a scope and a size limit
ConfiguredOptions ==
    Obj([scope |-> Str(<<"one">>), filter |-> Str(<<"(cn=x)">>), sizeLimit |-> Num(5)])

Configs ==
    { DefaultConfig,
      [DefaultConfig EXCEPT !.searchOptions = ConfiguredOptions],
      [DefaultConfig EXCEPT !.base = Str(<<>>), !.suffix = Str(<<"dc=s">>)] }

\* logon names of the three kinds
Usernames ==
    { Str(<<"u">>), Str(<<"d", "\\", "u">>), Str(<<"u", "@", "d">>),
      Str(<<"d", "c", "=", "d">>) }

\* the customBase argument: omitted, empty, a base, not a string, the flag of
\* the older signature
CustomBases == {Undefined, Str(<<>>), Str(<<"ou=x">>), Num(1), Bool(TRUE)}

\* the customSearch argument: omitted, an object with a filter, an object
\* with a filter, a scope and a size limit, and the filter as a string
FilterOnly == Obj([filter |-> Str(<<"(cn=y)">>)])
FullOverride ==
    Obj([filter |-> Str(<<"(cn=y)">>), scope |-> Str(<<"base">>), sizeLimit |-> Num(1)])
FilterString == Str(<<"(", "a", "=", "b", ")">>)
CustomSearches == {Undefined, FilterOnly, FullOverride, FilterString}

InitRequests ==
    /\ callers = {1}
    /\ call = [c \in Calls |-> IdleCall]
    /\ this \in {ActiveDirectory(config) : config \in Configs}
    /\ past = NoOverrides
    /\ arg = Undefined
    /\ ret = NotApplied

StartRequest(c) == StartWith(c, Usernames, {StrCred}, CustomBases, CustomSearches)

NextRequests ==
    \E c \in Calls :
        \/ StartRequest(c)
        \/ BindAccept(c)
        \/ BindReject(c)
        \/ SearchStart(c)
        \/ SearchEntry(c)
        \/ SearchEnd(c)
        \/ SearchError(c)
        \/ Return(c)

SpecRequests == InitRequests /\ [][NextRequests]_vars

(***************************************************************************)
(* Two calls in flight on one instance.                                    *)
(***************************************************************************)
InitConcurrent ==
    /\ callers = {1, 2}
    /\ call = [c \in Calls |-> IdleCall]
    /\ this = ActiveDirectory(DefaultConfig)
    /\ past = NoOverrides
    /\ arg = Undefined
    /\ ret = NotApplied

StartConcurrent(c) == StartWith(c, {StrCred}, {StrCred}, {Undefined}, {Undefined})

\* the two calls take their steps in any order
NextConcurrent ==
    \E c \in Calls :
        \/ StartConcurrent(c)
        \/ BindAccept(c)
        \/ BindReject(c)
        \/ SearchStart(c)
        \/ SearchEntry(c)
        \/ SearchEnd(c)
        \/ SearchError(c)

SpecConcurrent == InitConcurrent /\ [][NextConcurrent]_vars

TypeOK ==
    /\ callers \subseteq Calls
    /\ \A c \in Calls :
         /\ call[c].ver \in Versions
         /\ call[c].op \in Ops
         /\ call[c].tp \in {"none", "bind", "searchCb", "stream", "open", "dead"}
         /\ call[c].promise \in {"none", "pending", "resolved", "rejected"}
         /\ call[c].unbinds \in Nat
         /\ Len(call[c].emitted) <= MaxRecords

(***************************************************************************)
(* Properties of the orchestration.                                        *)
(***************************************************************************)
Settled(c) == call[c].promise \in {"resolved", "rejected"}
Async(c) == call[c].ver = "async" /\ call[c].promise # "none"
BindMessages ==
    {"Unknown Auth Error", "Invalid username or password", "Account is locked out"}

\* C1: in the async revision, for a call that reached the directory (bind
\* issued), client.unbind has been invoked exactly once when the call's
\* promise settles.
C1_UnbindOnceWhenSettled ==
    \A c \in Calls :
        Async(c) /\ call[c].binds = 1 /\ Settled(c) => call[c].unbindsAtSettle = 1

\* C2: under every transport behaviour the claim lists (bind accepted or
\* rejected, search ending with 'end' or 'error', client 'error' while a bind
\* or a search is pending; a search that could not be started is not among
\* them), every pending async call eventually settles with an object whose
\* success field is a boolean, and no exception escapes.
C2_EventuallySettles ==
    \A c \in Calls :
        (Async(c) /\ call[c].promise = "pending")
            ~> \/ /\ Settled(c)
                  /\ "success" \in DOMAIN call[c].result
                  /\ call[c].result.success \in BOOLEAN
                  /\ ~Crashed
               \/ call[c].searchErr # Undefined

\* C3: when the directory rejects the bind of an async call with error e, the
\* call resolves (it does not reject, nothing escapes) with
\* {success: false, message: resolveBindError(e), error: e}, and the message
\* is one of the three bind messages.
C3_BindRejectionIsFailure ==
    \A c \in Calls :
        Async(c) /\ call[c].bindErr # Undefined =>
            /\ call[c].promise = "resolved"
            /\ ~call[c].uncaught
            /\ call[c].result = [success |-> FALSE,
                                 message |-> resolveBindError(call[c].bindErr),
                                 error |-> call[c].bindErr]
            /\ call[c].result.message \in BindMessages

C3_Witness ==
    \E c \in Calls :
        /\ Async(c) /\ call[c].bindErr = ELocked
        /\ call[c].result.message = "Account is locked out"

\* C4: when the bind of an async loginUser succeeds and the search emits
\* exactly one record r and then 'end', the call resolves with
\* {success: true, entry: r}.
C4_OneRecordIsEntry ==
    \A c \in Calls :
        /\ Async(c) /\ call[c].op = "loginUser"
        /\ call[c].ended /\ Len(call[c].emitted) = 1
        => /\ call[c].promise = "resolved"
           /\ call[c].result = [success |-> TRUE, entry |-> call[c].emitted[1]]

C4_Witness ==
    \E c \in Calls :
        /\ Async(c) /\ call[c].op = "loginUser"
        /\ call[c].ended /\ call[c].emitted = <<Entry(2, FALSE)>>
        /\ call[c].promise = "resolved"

C6_FirstRecordWins ==
    \A c \in Calls :
        /\ call[c].op = "loginUser" /\ call[c].promise # "none"
        /\ Len(call[c].emitted) >= 2
        => /\ call[c].ver = "async" /\ call[c].ended =>
                /\ call[c].promise = "resolved"
                /\ call[c].result = [success |-> TRUE, entry |-> call[c].emitted[1]]
           /\ call[c].ver = "event" /\ call[c].clientErrs = 0 =>
                /\ call[c].promise = "resolved"
                /\ call[c].result = [success |-> TRUE, entry |-> call[c].emitted[1]]
           /\ Settled(c) /\ call[c].result.success =>
                call[c].result.entry = call[c].emitted[1]

C6_Witness ==
    \E c \in Calls :
        /\ Async(c) /\ call[c].op = "loginUser" /\ call[c].ended
        /\ call[c].emitted = <<Entry(1, TRUE), Entry(2, FALSE)>>
        /\ call[c].result.entry = Entry(1, TRUE)

\* C7, as claimed: when the search stream of an async call emits error e,
\* the call returns a failure that carries e and carries no message.
C7_StreamErrorHasNoMessage ==
    \A c \in Calls :
        Async(c) /\ call[c].streamErr # Undefined =>
            /\ call[c].result.success = FALSE
            /\ call[c].result.error = call[c].streamErr
            /\ "message" \notin DOMAIN call[c].result

\* C7, amended: when the search stream of an async call emits error e, the
\* call resolves with {success: false, message: resolveBindError(e),
\* error: e}: the catch block applies the bind-error classifier to e too.
C7_StreamErrorIsClassified ==
    \A c \in Calls :
        Async(c) /\ call[c].streamErr # Undefined =>
            /\ call[c].promise = "resolved"
            /\ call[c].result = [success |-> FALSE,
                                 message |-> resolveBindError(call[c].streamErr),
                                 error |-> call[c].streamErr]

C7_Witness ==
    \E c \in Calls :
        /\ Async(c) /\ call[c].streamErr = EConn
        /\ call[c].result.message = "Unknown Auth Error"

\* C8: an async call with a non-string username or password creates no
\* client and invokes neither bind nor search.
C8_NoClientOnBadCredentials ==
    \A c \in Calls :
        Async(c) /\ BindThrows(call[c].username, call[c].password) =>
            /\ call[c].created = 0
            /\ call[c].binds = 0
            /\ call[c].searches = 0

\* C9, as claimed: an async call with a non-string username or password
\* raises to its caller: its promise rejects.
C9_BadCredentialsRaise ==
    \A c \in Calls :
        Async(c) /\ BindThrows(call[c].username, call[c].password) /\ Settled(c) =>
            call[c].promise = "rejected"

\* C9, amended: an async call with a non-string username or password does not
\* raise.  It resolves with {success: false, message, error}: loginUser with a
\* non-string username with the TypeError of detectLogonType and 'Unknown
\* Auth Error'; every other case with the InvalidCredentialsError of _bind
\* and 'Invalid username or password'.
C9_BadCredentialsAreFailure ==
    \A c \in Calls :
        Async(c) /\ BindThrows(call[c].username, call[c].password) =>
            /\ call[c].promise = "resolved"
            /\ IF call[c].op = "loginUser" /\ TypeOf(call[c].username) # "string"
               THEN call[c].result = [success |-> FALSE,
                                      message |-> "Unknown Auth Error",
                                      error |-> TypeErr]
               ELSE call[c].result = [success |-> FALSE,
                                      message |-> "Invalid username or password",
                                      error |-> CredTypeErr]

C9_Witness ==
    \E c \in Calls :
        /\ Async(c) /\ call[c].op = "getAllGroups"
        /\ call[c].username = StrCred /\ call[c].password = Num(1)
        /\ call[c].result.message = "Invalid username or password"

(***************************************************************************)
(* resolveBindError on its own: Init draws the argument, the action        *)
(* applies the function.                                                   *)
(***************************************************************************)
\* the characters of an lde_message, and the strings of at most n of them
Chars == {"7", "5", "x"}
StringsUpTo(n) == UNION {[1..m -> Chars] : m \in 0..n}

\* the name property of the argument ("undefined": it has none)
ErrorNames == {"InvalidCredentialsError", "OperationsError", "undefined"}

\* a plain string, or an object with any name and any or no lde_message
BindErrorInputs ==
    {Str(s) : s \in StringsUpTo(MaxMsgLen)}
        \cup {ErrObj(n, Undefined) : n \in ErrorNames}
        \cup {ErrObj(n, Str(s)) : n \in ErrorNames, s \in StringsUpTo(MaxMsgLen)}

InitBindError ==
    /\ callers = {}
    /\ this = ActiveDirectory(DefaultConfig)
    /\ past = NoOverrides
    /\ call = [c \in Calls |-> IdleCall]
    /\ arg \in BindErrorInputs
    /\ ret = NotApplied

ApplyResolveBindError ==
    /\ arg \in BindErrorInputs
    /\ ret = NotApplied
    /\ ret' = Applied(resolveBindError(arg))
    /\ UNCHANGED <<callers, call, this, past, arg>>

NextBindError == ApplyResolveBindError

SpecBindError == InitBindError /\ [][NextBindError]_vars

\* the credential-error shape: name 'InvalidCredentialsError' and a non-empty
\* lde_message
CredentialShape(v) ==
    /\ v.t = "error"
    /\ v.name = "InvalidCredentialsError"
    /\ v.lde_message.t = "string"
    /\ v.lde_message.s # <<>>

\* the characters 7, 7, 5 in a row somewhere in s
Has775(s) ==
    \E i \in 1..Len(s) :
        i + 2 <= Len(s) /\ s[i] = "7" /\ s[i + 1] = "7" /\ s[i + 2] = "5"

MaxExtraBytes == 1

\* bytes around the padding threshold and at both ends of the range
ByteSamples == {0, 9, 10, 15, 16, 255}

\* 16-byte values: the reference value with up to two bytes replaced
SixteenByteValues ==
    {[ReferenceBytes EXCEPT ![i] = x, ![j] = y] :
        <<i, j, x, y>> \in (1..16) \X (1..16) \X ByteSamples \X ByteSamples}
    \cup {ReferenceBytes}

\* shorter values are prefixes of the reference value, longer ones extend it
ShortValues == {SubSeq(ReferenceBytes, 1, n) : n \in 0..15}
LongValues ==
    UNION {{ReferenceBytes \o tl : tl \in [1..n -> ByteSamples]} : n \in 1..MaxExtraBytes}

GUIDEntry(attrs) == Obj([attributes |-> Arr(attrs)])

GUIDEntries ==
    {GUIDEntry(<<GUIDAttribute(b)>>) : b \in SixteenByteValues \cup ShortValues \cup LongValues}
    \cup {GUIDEntry(<<OtherAttribute, GUIDAttribute(b)>>) : b \in ShortValues \cup LongValues \cup {ReferenceBytes}}

\* entries without a usable attributes array or without an objectGUID
BadGUIDEntries ==
    {Undefined, Null, Obj([object |-> Obj(<<>>)])}
    \cup {Obj([attributes |-> a]) : a \in {Undefined, Null, Str(<<"x">>), Num(1), Obj(<<>>)}}
    \cup {GUIDEntry(<<>>), GUIDEntry(<<OtherAttribute>>), GUIDEntry(<<OtherAttribute, OtherAttribute>>)}

GUIDInputs == GUIDEntries \cup BadGUIDEntries

InitGUID ==
    /\ callers = {}
    /\ this = ActiveDirectory(DefaultConfig)
    /\ past = NoOverrides
    /\ call = [c \in Calls |-> IdleCall]
    /\ arg \in GUIDInputs
    /\ ret = NotApplied

ApplyResolveGUID ==
    /\ arg \in GUIDInputs
    /\ ret = NotApplied
    /\ ret' = Applied(resolveGUID(arg))
    /\ UNCHANGED <<callers, call, this, past, arg>>

NextGUID == ApplyResolveGUID

SpecGUID == InitGUID /\ [][NextGUID]_vars

\* the value of the objectGUID attribute of a well-formed entry, as bytes
GUIDBytes(entry) == Get(FindGUID(Get(entry, "attributes").a, 1), "buffers").a[1].b

IsGUIDEntry(entry) ==
    /\ ~Nullish(entry)
    /\ Get(entry, "attributes").t = "array"
    /\ ~Nullish(FindGUID(Get(entry, "attributes").a, 1))

\* two lowercase hex digits of one byte
HexPair(n) == <<HexDigits[(n \div 16) + 1], HexDigits[(n % 16) + 1]>>

\* the 36 characters the GUID of 16 bytes has: hex pairs of the bytes in the
\* order 3,2,1,0 - 5,4 - 7,6 - 8,9 - 10..15
ExpectedGUID(b) ==
    HexPair(b[4]) \o HexPair(b[3]) \o HexPair(b[2]) \o HexPair(b[1]) \o <<"-">>
    \o HexPair(b[6]) \o HexPair(b[5]) \o <<"-">>
    \o HexPair(b[8]) \o HexPair(b[7]) \o <<"-">>
    \o HexPair(b[9]) \o HexPair(b[10]) \o <<"-">>
    \o HexPair(b[11]) \o HexPair(b[12]) \o HexPair(b[13])
    \o HexPair(b[14]) \o HexPair(b[15]) \o HexPair(b[16])

ReferenceGUID ==
    << "1", "7", "d", "4", "e", "7", "1", "0", "-", "6", "2", "4", "d", "-",
       "4", "9", "7", "8", "-", "9", "0", "0", "b", "-",
       "8", "5", "4", "9", "c", "b", "7", "5", "3", "6", "9", "9" >>

\* C11: for every 16-byte objectGUID value, resolveGUID returns the
\* 36-character string of zero-padded lowercase hex pairs of the bytes in the
\* order 3,2,1,0 - 5,4 - 7,6 - 8,9 - 10..15 (a function of the bytes alone),
\* and the reference bytes yield '17d4e710-624d-4978-900b-8549cb753699'
C11_GUIDOfSixteenBytes ==
    (ret.applied /\ IsGUIDEntry(arg) /\ Len(GUIDBytes(arg)) = 16) =>
        /\ ret.value = Ok(Str(ExpectedGUID(GUIDBytes(arg))))
        /\ Len(ret.value.value.s) = 36
        /\ (GUIDBytes(arg) = ReferenceBytes => ret.value.value.s = ReferenceGUID)

\* the reference value has been decoded, from an entry whose objectGUID is
\* not the first attribute
C11_Witness ==
    /\ ret.applied
    /\ arg = GUIDEntry(<<OtherAttribute, GUIDAttribute(ReferenceBytes)>>)
    /\ ret.value = Ok(Str(ReferenceGUID))

\* C12: resolveGUID raises an error whenever the objectGUID value is not
\* exactly 16 bytes long, shorter or longer, and never returns a GUID string
\* built from such a value
C12_OnlySixteenBytesDecode ==
    (ret.applied /\ IsGUIDEntry(arg) /\ Len(GUIDBytes(arg)) # 16) => ret.value.threw

\* the entry has an attributes array with no element of type 'objectGUID'
NoObjectGUID(entry) ==
    /\ ~Nullish(entry)
    /\ Get(entry, "attributes").t = "array"
    /\ \A i \in 1..Len(Get(entry, "attributes").a) :
           Get(Get(entry, "attributes").a[i], "type") # ObjectGUIDType

\* entry.attributes is absent or is not an array
NoAttributesArray(entry) ==
    /\ ~Nullish(entry)
    /\ Get(entry, "attributes").t # "array"

\* C13: resolveGUID raises an error and returns no value when the entry is
\* undefined, when entry.attributes is absent or not an array, and when the
\* attributes array has no element of type 'objectGUID'
C13_MalformedEntryRaises ==
    (ret.applied /\ (arg = Undefined \/ NoAttributesArray(arg) \/ NoObjectGUID(arg))) =>
        /\ ret.value.threw
        /\ "value" \notin DOMAIN ret.value
        /\ ret.value.error \in {TypeErr, GenericErr}

\* an entry whose only attribute is not the objectGUID has been refused
C13_Witness ==
    /\ ret.applied
    /\ arg = GUIDEntry(<<OtherAttribute>>)
    /\ ret.value = Throw(TypeErr)

\* ------------------------------------------------------------------------
\* resolveGroups and createUserObj: the group names and the user object of a
\* search entry

\* the largest number of comma-separated components of a flattened memberOf
\* string, and the largest number of names of a memberOf array
MaxComponents == 3
MaxNames == 2

\* relative distinguished names: group and other components, one of them with
\* a lowercase attribute type
RDNs ==
    { <<"C", "N", "=", "a">>, <<"C", "N", "=", "b">>, <<"O", "U", "=", "t">>,
      <<"D", "C", "=", "d">>, <<"c", "n", "=", "a">> }

\* flattened memberOf strings: the empty string and up to MaxComponents
\* components joined by commas
FlatStrings ==
    {<<>>} \cup UNION {{Join(cs, Comma) : cs \in [1..n -> RDNs]} : n \in 1..MaxComponents}

\* distinguished names of a memberOf array: with a leading CN component, with
\* a second CN component, and with a leading component that is no CN
ArrayNames ==
    { Join(<< <<"C", "N", "=", "a">> >>, Comma),
      Join(<< <<"C", "N", "=", "a">>, <<"C", "N", "=", "b">> >>, Comma),
      Join(<< <<"C", "N", "=", "b">>, <<"O", "U", "=", "t">>, <<"D", "C", "=", "d">> >>, Comma),
      Join(<< <<"O", "U", "=", "t">>, <<"C", "N", "=", "a">> >>, Comma),
      Join(<< <<"O", "U", "=", "t">>, <<"D", "C", "=", "d">> >>, Comma) }

NameArrays == UNION {[1..n -> {Str(nm) : nm \in ArrayNames}] : n \in 0..MaxNames}

\* memberOf values of every shape
MemberOfValues ==
    {Str(s) : s \in FlatStrings} \cup {Arr(a) : a \in NameArrays}
    \cup {Undefined, Null, Num(0), Num(7), Obj(<<>>), Obj([cn |-> Str(<<"a">>)])}

GroupsEntry(memberOf) == Obj([object |-> Obj([memberOf |-> memberOf])])

\* entries whose object is a mapping: with each memberOf value, and without
\* the memberOf property
MappingEntries ==
    {GroupsEntry(m) : m \in MemberOfValues} \cup {Obj([object |-> Obj(<<>>)])}

\* what is not an entry, and entries whose object is not a mapping
NonEntries == {Undefined, Null, Str(<<"x">>), Num(1)}
BadObjectEntries ==
    {Obj(<<>>)} \cup {Obj([object |-> o]) : o \in {Undefined, Null, Str(<<"x">>), Num(1)}}

\* well-formed entries of a user: each of telephoneNumber, name and mail is
\* absent (reads as undefined), empty or set
UserMemberOfs ==
    { Undefined,
      Str(Join(<< <<"C", "N", "=", "a">>, <<"C", "N", "=", "b">>, <<"D", "C", "=", "d">> >>, Comma)),
      Arr(<< Str(Join(<< <<"C", "N", "=", "a">>, <<"D", "C", "=", "d">> >>, Comma)),
             Str(Join(<< <<"C", "N", "=", "b">>, <<"O", "U", "=", "t">> >>, Comma)) >>),
      Arr(<< Str(Join(<< <<"O", "U", "=", "t">>, <<"D", "C", "=", "d">> >>, Comma)) >>) }

UserEntry(memberOf, phone, name, mail, bytes, dn) ==
    Obj([object |-> Obj([memberOf |-> memberOf, telephoneNumber |-> phone,
                         name |-> name, mail |-> mail]),
         attributes |-> Arr(<<GUIDAttribute(bytes)>>),
         objectName |-> dn])

UserEntries ==
    { UserEntry(m, p, n, e, b, d) :
        <<m, p, n>> \in UserMemberOfs \X {Undefined, Str(<<>>), Str(<<"+1 123">>)}
                        \X {Undefined, Str(<<"Test User">>)},
        <<e, b, d>> \in {Undefined, Str(<<"test@domain.com">>)}
                        \X {ReferenceBytes, [ReferenceBytes EXCEPT ![1] = 0]}
                        \X {Str(<<"CN=u,DC=d">>), Str(<<"CN=v,OU=t,DC=d">>)} }
    \cup { Obj([object |-> Obj(<<>>),
                attributes |-> Arr(<<GUIDAttribute(ReferenceBytes)>>),
                objectName |-> Str(<<"CN=u,DC=d">>)]) }

\* entries with a mapping as object and no usable objectGUID
NoGUIDEntries ==
    { Obj([object |-> Obj(<<>>)]),
      Obj([object |-> Obj(<<>>), attributes |-> Arr(<<OtherAttribute>>)]) }

ResolveGroupsInputs == MappingEntries \cup NonEntries \cup BadObjectEntries

CreateUserObjInputs == UserEntries \cup NonEntries \cup BadObjectEntries \cup NoGUIDEntries

UserObjInputs ==
    {[fn |-> "resolveGroups", entry |-> e] : e \in ResolveGroupsInputs}
    \cup {[fn |-> "createUserObj", entry |-> e] : e \in CreateUserObjInputs}

InitUserObj ==
    /\ callers = {}
    /\ this = ActiveDirectory(DefaultConfig)
    /\ past = NoOverrides
    /\ call = [c \in Calls |-> IdleCall]
    /\ arg \in UserObjInputs
    /\ ret = NotApplied

ApplyResolveGroups ==
    /\ arg \in UserObjInputs
    /\ arg.fn = "resolveGroups"
    /\ ret = NotApplied
    /\ ret' = Applied(resolveGroups(arg.entry))
    /\ UNCHANGED <<callers, call, this, past, arg>>

ApplyCreateUserObj ==
    /\ arg \in UserObjInputs
    /\ arg.fn = "createUserObj"
    /\ ret = NotApplied
    /\ ret' = Applied(createUserObj(arg.entry))
    /\ UNCHANGED <<callers, call, this, past, arg>>

NextUserObj == ApplyResolveGroups \/ ApplyCreateUserObj

SpecUserObj == InitUserObj /\ [][NextUserObj]_vars

\* resolveGroups has been applied to an entry whose object is a mapping
GroupsApplied ==
    /\ ret.applied
    /\ arg.fn = "resolveGroups"
    /\ arg.entry \in MappingEntries

MemberOfArg == Get(Get(arg.entry, "object"), "memberOf")

ContainsCN(c) == \E i \in 1..Len(c) : i + 2 <= Len(c) /\ SubSeq(c, i, i + 2) = CNToken

\* the components of cs that hold 'CN=', in order, each without its first
\* three characters
StrippedCNs(cs) ==
    LET kept == SelectSeq(cs, ContainsCN)
    IN  [i \in 1..Len(kept) |-> Str(SubSeq(kept[i], 4, Len(kept[i])))]

\* C15: for a memberOf that is one string, resolveGroups returns, in order,
\* exactly the comma-separated components that contain 'CN=', each with the
\* 'CN=' prefix stripped, so one string can yield several group names
C15_FlattenedStringIsSplit ==
    (GroupsApplied /\ MemberOfArg.t = "string") =>
        \A n \in 0..MaxComponents : \A cs \in [1..n -> RDNs] :
            Join(cs, Comma) = MemberOfArg.s =>
                ret.value = Ok(Arr(StrippedCNs(cs)))

\* 'CN=a,CN=b,DC=d' has yielded the two names a and b
C15_Witness ==
    /\ GroupsApplied
    /\ MemberOfArg =
           Str(Join(<< <<"C", "N", "=", "a">>, <<"C", "N", "=", "b">>, <<"D", "C", "=", "d">> >>, Comma))
    /\ ret.value = Ok(Arr(<<Str(<<"a">>), Str(<<"b">>)>>))

\* the text of a name before its first comma
BeforeComma(s) ==
    LET commas == {i \in 1..Len(s) : s[i] = ","}
    IN  IF commas = {} THEN s
        ELSE SubSeq(s, 1, (CHOOSE i \in commas : \A j \in commas : i <= j) - 1)

LeadsWithCN(s) == Len(s) >= 3 /\ SubSeq(s, 1, 3) = CNToken

\* a text with its 'CN=' prefix, if it has one, stripped
WithoutCNPrefix(s) == IF LeadsWithCN(s) THEN SubSeq(s, 4, Len(s)) ELSE s

\* C16: for a memberOf that is an array of distinguished names, resolveGroups
\* returns an array of the same length and order whose i-th element is the
\* text before the first comma of the i-th name with 'CN=' stripped; later CN
\* components of a name are never extracted
C16_LeadingComponentPerName ==
    (GroupsApplied /\ MemberOfArg.t = "array") =>
        /\ ret.value.value.t = "array"
        /\ Len(ret.value.value.a) = Len(MemberOfArg.a)
        /\ \A i \in 1..Len(MemberOfArg.a) :
               ret.value.value.a[i] = Str(WithoutCNPrefix(BeforeComma(MemberOfArg.a[i].s)))

\* the groups a call has returned: the result of resolveGroups, or the groups
\* field of the result of createUserObj
ReturnedGroups ==
    IF arg.fn = "resolveGroups" THEN ret.value.value ELSE Get(ret.value.value, "groups")

\* C17: every element of the array resolveGroups returns, and so of the
\* groups field of createUserObj, is a string, for every string or
\* array-of-strings memberOf, also when a name does not lead with a CN
\* component
C17_GroupsAreStrings ==
    (ret.applied /\ ~ret.value.threw) =>
        \A i \in 1..Len(ReturnedGroups.a) : ReturnedGroups.a[i].t = "string"

\* what is no mapping: undefined, null, a string, a number
NotAMapping(v) == v.t \in {"undefined", "null", "string", "number"}

\* C18: resolveGroups raises an error when the entry is undefined or when
\* entry.object is not a mapping (undefined, a string, a number, null), and
\* createUserObj raises an error when its entry is not a structured object
C18_MalformedEntriesRaise ==
    /\ (/\ ret.applied
        /\ arg.fn = "resolveGroups"
        /\ (arg.entry = Undefined
               \/ (arg.entry.t = "object" /\ NotAMapping(Get(arg.entry, "object")))))
           => (ret.value.threw /\ ret.value.error \in {TypeErr, GenericErr})
    /\ (ret.applied /\ arg.fn = "createUserObj" /\ NotAMapping(arg.entry))
           => (ret.value.threw /\ ret.value.error \in {TypeErr, GenericErr})

\* resolveGroups has refused an entry whose object is null, which passes the
\* typeof test and fails at the read of memberOf
C18_Witness ==
    /\ ret.applied
    /\ arg = [fn |-> "resolveGroups", entry |-> Obj([object |-> Null])]
    /\ ret.value = Throw(TypeErr)

\* the empty string for an absent property
Defaulted(v) == IF v = Undefined THEN Str(<<>>) ELSE v

UserApplied ==
    /\ ret.applied
    /\ arg.fn = "createUserObj"
    /\ arg.entry \in UserEntries

MaxNameLen == 4

NameChars == {"@", "D", "d", "C", "c", "=", "u"}

LogonNames == UNION {[1..n -> NameChars] : n \in 0..MaxNameLen}

InitLogonType ==
    /\ callers = {}
    /\ this = ActiveDirectory(DefaultConfig)
    /\ past = NoOverrides
    /\ call = [c \in Calls |-> IdleCall]
    /\ arg \in {Str(s) : s \in LogonNames}
    /\ ret = NotApplied

ApplyDetectLogonType ==
    /\ arg \in {Str(s) : s \in LogonNames}
    /\ ret = NotApplied
    /\ ret' = Applied(detectLogonType(arg))
    /\ UNCHANGED <<callers, call, this, past, arg>>

NextLogonType == ApplyDetectLogonType

SpecLogonType == InitLogonType /\ [][NextLogonType]_vars

HasAt(s) == \E i \in 1..Len(s) : s[i] = "@"

\* 'DC=' in any letter case
HasDC(s) ==
    \E i \in 1..Len(s) :
        /\ i + 2 <= Len(s)
        /\ s[i] \in {"D", "d"}
        /\ s[i + 1] \in {"C", "c"}
        /\ s[i + 2] = "="

\* C20: detectLogonType returns 'userPrincipalName' for every string that
\* contains '@' (also when it contains 'DC='), 'distinguishedName' for every
\* string without '@' that contains 'DC=' in any letter case, and
\* 'sAMAccountName' for every other string
C20_LogonTypeOfString ==
    ret.applied =>
        /\ ret.value \in {UPN, DN, SAM}
        /\ (HasAt(arg.s) => ret.value = UPN)
        /\ (~HasAt(arg.s) /\ HasDC(arg.s) => ret.value = DN)
        /\ (~HasAt(arg.s) /\ ~HasDC(arg.s) => ret.value = SAM)

\* a name with 'dc=' in lowercase and no '@' has been classified as a
\* distinguished name
C20_Witness ==
    /\ ret.applied
    /\ arg = Str(<<"d", "c", "=", "u">>)
    /\ ret.value = DN

\* ------------------------------------------------------------------------
\* cleanSama: a sAMAccountName without the domain in front of it

\* the longest account name
MaxSamaLen == 5

SamaChars == {"\\", "d", "u"}

SamaNames == UNION {[1..n -> SamaChars] : n \in 0..MaxSamaLen}

InitSama ==
    /\ callers = {}
    /\ this = ActiveDirectory(DefaultConfig)
    /\ past = NoOverrides
    /\ call = [c \in Calls |-> IdleCall]
    /\ arg \in {Str(s) : s \in SamaNames}
    /\ ret = NotApplied

ApplyCleanSama ==
    /\ arg \in {Str(s) : s \in SamaNames}
    /\ ret = NotApplied
    /\ ret' = Applied(cleanSama(arg))
    /\ UNCHANGED <<callers, call, this, past, arg>>

NextSama == ApplyCleanSama

SpecSama == InitSama /\ [][NextSama]_vars

HasBackslash(s) == \E i \in 1..Len(s) : s[i] = "\\"

\* the position of the last backslash of s
LastBackslash(s) ==
    CHOOSE i \in 1..Len(s) : s[i] = "\\" /\ \A j \in (i + 1)..Len(s) : s[j] # "\\"

\* C21: cleanSama returns the segment after the last backslash of its input,
\* the input unchanged when it holds no backslash, and never a string that
\* holds a backslash
C21_SegmentAfterLastBackslash ==
    ret.applied =>
        /\ ret.value.t = "string"
        /\ ~HasBackslash(ret.value.s)
        /\ (~HasBackslash(arg.s) => ret.value = arg)
        /\ (HasBackslash(arg.s) =>
               ret.value.s = SubSeq(arg.s, LastBackslash(arg.s) + 1, Len(arg.s)))

\* 'd\d\u' has been cleaned to 'u'
C21_Witness ==
    /\ ret.applied
    /\ arg = Str(<<"d", "\\", "d", "\\", "u">>)
    /\ ret.value = Str(<<"u">>)

\* ------------------------------------------------------------------------
\* The requests of loginUser, getAllGroups and getAllUsers.

\* an async loginUser that has issued its search
LoginSearched(c) ==
    Async(c) /\ call[c].op = "loginUser" /\ call[c].searches > 0

\* the attribute a logon name is searched by, and the name searched for
ExpectedType(u) ==
    IF HasAt(u) THEN <<"userPrincipalName">>
    ELSE IF HasDC(u) THEN <<"distinguishedName">>
    ELSE <<"sAMAccountName">>

ExpectedUser(u) ==
    IF ~HasAt(u) /\ ~HasDC(u) /\ HasBackslash(u)
    THEN SubSeq(u, LastBackslash(u) + 1, Len(u))
    ELSE u

\* C22: without a search override the async loginUser searches with the
\* filter '(T=U)', T = detectLogonType(username), U = cleanSama(username) for
\* a sAMAccountName and the username otherwise; the bind is issued with the
\* username as the caller gave it
C22_FilterFromUsername ==
    \A c \in Calls :
        /\ (Async(c) /\ call[c].op = "loginUser" /\ call[c].binds > 0)
               => call[c].bindUser = call[c].username
        /\ (LoginSearched(c) /\ call[c].customSearch = Undefined)
               => Get(call[c].sentSearch, "filter") =
                      Str(<<"(">> \o ExpectedType(call[c].username.s) \o <<"=">>
                          \o ExpectedUser(call[c].username.s) \o <<")">>)

\* 'd\u' has been bound as given and searched as (sAMAccountName=u)
C22_Witness ==
    \E c \in Calls :
        /\ LoginSearched(c)
        /\ call[c].customSearch = Undefined
        /\ call[c].bindUser = Str(<<"d", "\\", "u">>)
        /\ Get(call[c].sentSearch, "filter") = Str(<<"(", "sAMAccountName", "=", "u", ")">>)

\* C23: in loginUser a search override replaces only the filter: the filter
\* given to client.search is the override's, the scope and the sizeLimit are
\* those of the instance's searchOptions, whatever the override holds
C23_OverrideReplacesOnlyFilter ==
    \A c \in Calls :
        (LoginSearched(c) /\ call[c].customSearch.t = "object") =>
            /\ Get(call[c].sentSearch, "filter") = Get(call[c].customSearch, "filter")
            /\ Get(call[c].sentSearch, "scope") = Get(this.searchOptions, "scope")
            /\ Get(call[c].sentSearch, "sizeLimit") = Get(this.searchOptions, "sizeLimit")

\* C24: every search of the async loginUser, getAllGroups and getAllUsers is
\* issued against the base the caller gave when that is a non-empty string,
\* and against the default base of the instance when the argument is
\* omitted, empty or not a string
C24_BaseOfSearch ==
    \A c \in Calls :
        (Async(c) /\ call[c].searches > 0) =>
            call[c].sentBase =
                IF call[c].customBase.t = "string" /\ Len(call[c].customBase.s) > 0
                THEN call[c].customBase
                ELSE this.base

\* getAllUsers with the empty string as base has searched the default base,
\* which the instance took from the legacy suffix
C24_Witness ==
    \E c \in Calls :
        /\ Async(c) /\ call[c].op = "getAllUsers" /\ call[c].searches > 0
        /\ call[c].customBase = Str(<<>>)
        /\ call[c].sentBase = Str(<<"dc=s">>)

\* the filter a call without a search override searches with
DefaultFilter(k) ==
    CASE k.op = "getAllGroups" -> Str(<<"(objectCategory=group)">>)
      [] k.op = "getAllUsers" -> Str(<<"(&(objectClass=user)(objectCategory=person))">>)
      [] k.op = "loginUser" /\ k.ver = "async" ->
             Str(<<"(">> \o ExpectedType(k.username.s) \o <<"=">>
                 \o ExpectedUser(k.username.s) \o <<")">>)
      [] k.op = "loginUser" /\ k.ver = "event" ->
             IF Get(this.searchOptions, "filter") # Undefined
             THEN Get(this.searchOptions, "filter")
             ELSE Str(<<"(", "userPrincipalName", "=">> \o k.username.s \o <<")">>)

\* the base a call without a base override searches, and the filter a call
\* without a search override searches with, are those of the instance and of
\* the call's own arguments
OwnRequest(k) ==
    k.searches > 0 =>
        /\ (k.customBase = Undefined => k.sentBase = this.base)
        /\ (k.customSearch = Undefined => Get(k.sentSearch, "filter") = DefaultFilter(k))

\* C25: no step of any loginUser, getAllGroups or getAllUsers call, with or
\* without overrides and whatever its outcome, changes the base, the
\* searchOptions or the ldapjsSettings of the instance, and an override given
\* to one call has no effect on the base or the filter of a later call
C25_InstanceUnchanged ==
    [][ /\ this' = this
        /\ \A c \in Calls : OwnRequest(call[c])' ]_vars

\* after calls with a base and a search override were completed, a call
\* without overrides has searched the default base with its own filter
C25_Witness ==
    \E c \in Calls :
        /\ past.base /\ past.search
        /\ Async(c) /\ call[c].op = "loginUser" /\ call[c].searches > 0
        /\ call[c].customBase = Undefined /\ call[c].customSearch = Undefined
        /\ call[c].sentBase = this.base
        /\ Get(call[c].sentSearch, "filter") = DefaultFilter(call[c])

\* ------------------------------------------------------------------------
\* Concurrent calls.

\* how a call settles, given the events of its own client alone: the bind
\* error, the entries, the 'end' and the 'error' of its own search
OwnOutcome(k) ==
    IF k.bindErr # Undefined
    THEN <<"resolved", [success |-> FALSE, message |-> resolveBindError(k.bindErr),
                        error |-> k.bindErr]>>
    ELSE IF k.ver = "event" /\ k.op = "loginUser" /\ Len(k.emitted) > 0
    THEN <<"resolved", [success |-> TRUE, entry |-> k.emitted[1]]>>
    ELSE IF k.streamErr # Undefined
    THEN IF k.ver = "async"
         THEN <<"resolved", Failure(k.streamErr)>>
         ELSE <<"rejected", [success |-> FALSE, message |-> ErrorResolving(k.op),
                             error |-> k.streamErr]>>
    ELSE IF k.ver = "async"
    THEN CASE k.op = "loginUser" -> <<"resolved", loginUserReturn(k.emitted)>>
           [] k.op = "getAllGroups" -> <<"resolved", getAllGroupsReturn(k.emitted, Flag(k.customBase, k.flag))>>
           [] k.op = "getAllUsers" -> <<"resolved", getAllUsersReturn(k.emitted, Flag(k.customBase, k.flag))>>
    ELSE CASE k.op = "loginUser" ->
                  <<"resolved", [success |-> FALSE, message |-> "Error resolving account"]>>
           [] k.op = "getAllGroups" ->
                  <<"resolved", [success |-> TRUE,
                                 groups |-> GroupCNs(k.emitted)]>>
           [] k.op = "getAllUsers" -> <<"resolved", [success |-> TRUE, users |-> k.emitted]>>

BothInFlight == \A c \in Calls : call[c].promise # "none"

ListMethod(k) == k.op \in {"getAllGroups", "getAllUsers"}

Succeeded(k) == k.promise = "resolved" /\ k.result.success

\* does the call run detailed / formatted
Flagged(k) == Truthy(Flag(k.customBase, k.flag))

\* the list of a successful result
Items(k) == IF k.op = "getAllGroups" THEN k.result.groups ELSE k.result.users

\* the item the method makes of one record
ItemOf(k, r) ==
    CASE k.op = "getAllUsers" /\ Flagged(k) -> createUserObj(r)
      [] k.op = "getAllUsers" /\ ~Flagged(k) -> Ok(r)
      [] k.op = "getAllGroups" /\ k.ver = "event" ->
             Ok(AfterCN(Split(Get(r, "objectName").s, Comma)[1]))
      [] k.op = "getAllGroups" /\ k.ver = "async" /\ Flagged(k) -> GroupDetail(r)
      [] k.op = "getAllGroups" /\ k.ver = "async" /\ ~Flagged(k) -> Ok(GroupName(r))

\* C27: a successful getAllUsers or getAllGroups result exists only after the
\* search's end signal, and its list holds one item per record emitted
\* before that signal, the i-th item made of the i-th record emitted
C27_ListFollowsEmission ==
    \A c \in Calls :
        (ListMethod(call[c]) /\ Succeeded(call[c])) =>
            /\ call[c].ended
            /\ Len(Items(call[c])) = Len(call[c].emitted)
            /\ \A i \in 1..Len(call[c].emitted) :
                   LET item == ItemOf(call[c], call[c].emitted[i])
                   IN  ~item.threw /\ Items(call[c])[i] = item.value

\* a successful list made of two different records
C27_Witness ==
    \E c \in Calls :
        /\ ListMethod(call[c]) /\ Succeeded(call[c])
        /\ call[c].emitted = <<Entry(2, FALSE), Entry(1, TRUE)>>
        /\ Len(Items(call[c])) = 2
        /\ Items(call[c])[1] # Items(call[c])[2]

(***************************************************************************)
(* getAllGroups and getAllUsers of the async revision (SpecRequests).      *)
(***************************************************************************)
\* an async call of method op that has issued its search
Searched(c, op) == Async(c) /\ call[c].op = op /\ call[c].searches > 0

\* an async call of method op that has returned a success
Returned(c, op) == Async(c) /\ call[c].op = op /\ Succeeded(call[c])

SixAttributes ==
    Arr(<<Str(<<"name">>), Str(<<"dn">>), Str(<<"objectGUID">>), Str(<<"description">>),
          Str(<<"whenCreated">>), Str(<<"whenChanged">>)>>)

\* is groups the list of the names of records
NamesOf(groups, records) ==
    /\ Len(groups) = Len(records)
    /\ \A i \in 1..Len(records) : groups[i] = Get(Get(records[i], "object"), "name")

\* is groups the list of the detailed records of records
DetailsOf(groups, records) ==
    /\ Len(groups) = Len(records)
    /\ \A i \in 1..Len(records) :
           LET object == Get(records[i], "object") IN
           /\ ~resolveGUID(records[i]).threw
           /\ ~convertToDate(Get(object, "whenCreated")).threw
           /\ ~convertToDate(Get(object, "whenChanged")).threw
           /\ groups[i] =
                  Obj([name |-> Get(object, "name"), dn |-> Get(object, "dn"),
                       guid |-> resolveGUID(records[i]).value,
                       description |-> Get(object, "description"),
                       created |-> convertToDate(Get(object, "whenCreated")).value,
                       changed |-> convertToDate(Get(object, "whenChanged")).value])

\* what getAllGroups does when the call is detailed or not
GroupsContract(c, detailed) ==
    /\ Searched(c, "getAllGroups") =>
           /\ Get(call[c].sentSearch, "filter") = Str(<<"(objectCategory=group)">>)
           /\ detailed => Get(call[c].sentSearch, "attributes") = SixAttributes
    /\ Returned(c, "getAllGroups") =>
           IF detailed THEN DetailsOf(call[c].result.groups, call[c].emitted)
           ELSE NamesOf(call[c].result.groups, call[c].emitted)

\* C28 as stated: getAllGroups searches with the filter
\* '(objectCategory=group)' whatever filter the instance holds; its success
\* holds the names of the records when the detailed argument is falsy, and
\* when it is true the detailed records, the six attributes having been
\* requested
C28_DetailedArgumentDecides ==
    \A c \in Calls : GroupsContract(c, Truthy(call[c].flag))

\* C28: the same with the detailed mode also chosen by a boolean true in the
\* place of customBase when the detailed argument is omitted
C28_GroupsSearchAndResult ==
    \A c \in Calls :
        GroupsContract(c, Truthy(call[c].flag)
                          \/ (call[c].flag = Undefined /\ call[c].customBase = Bool(TRUE)))

\* on an instance with a filter of its own, getAllGroups(u, p, true) has
\* returned the detailed record of an entry
C28_Witness ==
    \E c \in Calls :
        /\ Returned(c, "getAllGroups")
        /\ Get(this.searchOptions, "filter") = Str(<<"(cn=x)">>)
        /\ call[c].flag = Undefined /\ call[c].customBase = Bool(TRUE)
        /\ call[c].emitted = <<Entry(1, TRUE)>>
        /\ Get(call[c].result.groups[1], "name") = Str(<<"g", "1">>)

\* is users the list of the normalised records of records
UserObjsOf(users, records) ==
    /\ Len(users) = Len(records)
    /\ \A i \in 1..Len(records) :
           ~createUserObj(records[i]).threw /\ users[i] = createUserObj(records[i]).value

\* what getAllUsers does when the call is formatted or not
UsersContract(c, formatted) ==
    /\ Searched(c, "getAllUsers") =>
           Get(call[c].sentSearch, "filter") =
               Str(<<"(&(objectClass=user)(objectCategory=person))">>)
    /\ Returned(c, "getAllUsers") =>
           IF formatted THEN UserObjsOf(call[c].result.users, call[c].emitted)
           ELSE call[c].result.users = call[c].emitted

\* C29 as stated: getAllUsers searches with the filter
\* '(&(objectClass=user)(objectCategory=person))'; its success holds the raw
\* records when the formatted argument is falsy and createUserObj of each
\* record, in order, when it is true
C29_FormattedArgumentDecides ==
    \A c \in Calls : UsersContract(c, Truthy(call[c].flag))

\* C29: the same with the formatting also chosen by a boolean true in the
\* place of customBase when the formatted argument is omitted
C29_UsersSearchAndResult ==
    \A c \in Calls :
        UsersContract(c, Truthy(call[c].flag)
                         \/ (call[c].flag = Undefined /\ call[c].customBase = Bool(TRUE)))

\* getAllUsers(u, p, true) has returned the normalised records of two entries
C29_Witness ==
    \E c \in Calls :
        /\ Returned(c, "getAllUsers")
        /\ call[c].flag = Undefined /\ call[c].customBase = Bool(TRUE)
        /\ call[c].emitted = <<Entry(1, TRUE), Entry(1, TRUE)>>
        /\ call[c].result.users[2] = createUserObj(Entry(1, TRUE)).value

(***************************************************************************)
(* Rejections of the promise-constructor revision (Spec).                  *)
(***************************************************************************)
\* has the client of the call emitted 'error': by itself, or by the method
\* passing on a search fault
ErrorEmitted(k) ==
    k.clientErrs > 0 \/ k.streamErr # Undefined \/ k.searchErr # Undefined

\* {success: false, message, error}
RejectionShape(v) ==
    /\ DOMAIN v = {"success", "message", "error"}
    /\ v.success = FALSE

\* C30: in the promise-constructor loginUser, getAllGroups and getAllUsers the
\* promise is rejected only after the client emitted 'error', and then with
\* {success: false, message, error}; after the directory rejected the bind
\* the promise is resolved with success = false
C30_RejectsOnlyOnClientError ==
    \A c \in Calls :
        call[c].ver = "event" =>
            /\ call[c].promise = "rejected" =>
                   ErrorEmitted(call[c]) /\ RejectionShape(call[c].result)
            /\ call[c].bindErr # Undefined =>
                   call[c].promise = "resolved" /\ call[c].result.success = FALSE

(***************************************************************************)
(* The keys of a result (Spec).                                            *)
(***************************************************************************)
\* C31: every result of loginUser, getAllGroups and getAllUsers, resolved or
\* rejected, has a success key, and every result whose success is false has
\* a message key and an error key too
C31_ResultKeys ==
    \A c \in Calls :
        Settled(c) =>
            /\ "success" \in DOMAIN call[c].result
            /\ call[c].result.success = FALSE =>
                   {"message", "error"} \subseteq DOMAIN call[c].result

(***************************************************************************)
(* Handlers after the result (Spec).                                       *)
(***************************************************************************)
\* what the code of a call has done: the releases, the accumulator, the
\* result, an exception nobody caught
CodeEffects(k) == <<k.unbinds, k.acc, k.promise, k.result, k.uncaught>>

\* C32: once loginUser, getAllGroups or getAllUsers has returned its result
\* no handler of the call is left on the client or on the result stream: an
\* event the transport emits afterwards runs no code of that call
C32_NoCodeAfterReturn ==
    [][\A c \in Calls :
           (Settled(c) /\ call'[c].promise # "none") =>
               CodeEffects(call'[c]) = CodeEffects(call[c])]_vars

\* ------------------------------------------------------------------------
\* The constructor: base and the legacy suffix

\* the longest base or suffix
MaxBaseLen == 2

BaseChars == {"a", "b"}

BaseNames == UNION {[1..n -> BaseChars] : n \in 0..MaxBaseLen}

\* configurations with every pair of base and suffix, an omitted one being
\* the default ''
ConstructorConfigs ==
    {[DefaultConfig EXCEPT !.base = Str(b), !.suffix = Str(s), !.searchOptions = o] :
        b \in BaseNames, s \in BaseNames, o \in {DefaultConfig.searchOptions, ConfiguredOptions}}

InitConstructor ==
    /\ callers = {}
    /\ this = ActiveDirectory(DefaultConfig)
    /\ past = NoOverrides
    /\ call = [c \in Calls |-> IdleCall]
    /\ arg \in ConstructorConfigs
    /\ ret = NotApplied

\* new ActiveDirectory(arg)
Construct ==
    /\ arg \in ConstructorConfigs
    /\ ret = NotApplied
    /\ ret' = Applied(ActiveDirectory(arg))
    /\ UNCHANGED <<callers, call, this, past, arg>>

NextConstructor == Construct

SpecConstructor == InitConstructor /\ [][NextConstructor]_vars

\* C33: the default base of the new instance is the given base when that is
\* not empty, also when a suffix is given with it, and the suffix when the
\* base is blank and the suffix is any string that is not empty
C33_BaseOrSuffix ==
    ret.applied =>
        /\ Len(arg.base.s) > 0 => ret.value.base = arg.base
        /\ (Len(arg.base.s) = 0 /\ Len(arg.suffix.s) > 0) => ret.value.base = arg.suffix

\* a suffix of one character has become the base of an instance built
\* without base
C33_Witness ==
    /\ ret.applied
    /\ arg.base = Str(<<>>) /\ arg.suffix = Str(<<"a">>)
    /\ ret.value.base = Str(<<"a">>)

\* ------------------------------------------------------------------------
\* convertToDate: the time stamps of the directory, YYYYMMDDHHMMSS.0Z

\* the longest text after the fourteen digits
MaxTailLen == 2

TailChars == {".", "0", "Z"}

Tails == UNION {[1..n -> TailChars] : n \in 0..MaxTailLen}

\* the fields of the time stamps: in range, at the ends of their ranges and
\* outside them
StampYears == {<<"1", "9", "7", "0">>, <<"2", "0", "1", "9">>, <<"2", "0", "2", "0">>}
StampMonths == {<<"0", "0">>, <<"0", "1">>, <<"0", "2">>, <<"1", "2">>, <<"1", "3">>}
StampDays == {<<"0", "0">>, <<"0", "3">>, <<"2", "9">>, <<"3", "1">>, <<"3", "2">>}
StampHours == {<<"0", "0">>, <<"2", "3">>, <<"2", "4">>}
StampMinutes == {<<"0", "0">>, <<"5", "9">>, <<"6", "0">>}
StampSeconds == {<<"0", "7">>, <<"5", "9">>}

Stamps ==
    {y \o m \o d \o h \o mi \o sc :
        y \in StampYears, m \in StampMonths, d \in StampDays, h \in StampHours,
        mi \in StampMinutes, sc \in StampSeconds}

ConvertToDateInputs ==
    {Str(stamp \o tail) : stamp \in Stamps, tail \in Tails} \cup {Undefined, Null, Num(1)}

InitDate ==
    /\ callers = {}
    /\ this = ActiveDirectory(DefaultConfig)
    /\ past = NoOverrides
    /\ call = [c \in Calls |-> IdleCall]
    /\ arg \in ConvertToDateInputs
    /\ ret = NotApplied

ApplyConvertToDate ==
    /\ arg \in ConvertToDateInputs
    /\ ret = NotApplied
    /\ ret' = Applied(convertToDate(arg))
    /\ UNCHANGED <<callers, call, this, past, arg>>

NextDate == ApplyConvertToDate

SpecDate == InitDate /\ [][NextDate]_vars

\* the number in the characters [a:b] of the input
Field(a, b) == ToNumber(SubSeq(arg.s, a + 1, b))

\* do the first fourteen characters of the input name a day of the calendar
\* and a time of that day
CalendarStamp ==
    /\ arg.t = "string"
    /\ Field(4, 6) \in 1..12
    /\ Field(6, 8) \in 1..DaysInMonth(Field(0, 4), Field(4, 6))
    /\ Field(8, 10) \in 0..23 /\ Field(10, 12) \in 0..59 /\ Field(12, 14) \in 0..59

\* C34: convertToDate reads year, month, day, hour, minute and second from the
\* characters [0:4], [4:6], [6:8], [8:10], [10:12], [12:14] of its input: the
\* characters from index 14 on do not change the result, and for the fields
\* of a calendar day the result is the instant with these fields in UTC and
\* zero milliseconds
C34_FixedRangesAsUTC ==
    (ret.applied /\ arg.t = "string") =>
        /\ ~ret.value.threw
        /\ ret.value.value = convertToDate(Str(SubSeq(arg.s, 1, 14))).value
        /\ CalendarStamp =>
               ret.value.value =
                   [t |-> "date", valid |-> TRUE,
                    day |-> DayFromYear(Field(0, 4)) + DaysBeforeMonth(Field(0, 4), Field(4, 6))
                            + Field(6, 8) - 1,
                    sec |-> 3600 * Field(8, 10) + 60 * Field(10, 12) + Field(12, 14),
                    ms |-> 0]

\* '20200229235959.0' has become the last second of 29 February 2020 UTC
C34_Witness ==
    /\ ret.applied
    /\ arg = Str(<<"2", "0", "2", "0", "0", "2", "2", "9", "2", "3", "5", "9", "5", "9", ".", "0">>)
    /\ ret.value.value = [t |-> "date", valid |-> TRUE, day |-> 18321, sec |-> 86399, ms |-> 0]

(***************************************************************************)
(* The order of bind and search (Spec).                                    *)
(***************************************************************************)
\* the binds a call issues: one for credentials that are strings, none for
\* the others, on which the async methods raise before client.bind (in the
\* promise-constructor revision ldapjs may raise in it)
ExpectedBinds(k) ==
    IF ~BindThrows(k.username, k.password) THEN 1
    ELSE IF k.ver = "async" THEN 0
    ELSE k.binds

\* a step that leaves call c with n binds, at most one search and no search
\* next to a rejected bind, and that issues a search only as the answer to
\* an accepted bind
BindThenSearch(c, n) ==
    call'[c].promise # "none" =>
        /\ call'[c].binds = n
        /\ call'[c].searches <= 1
        /\ call'[c].bindErr # Undefined => call'[c].searches = 0
        /\ (call[c].promise # "none" /\ call'[c].searches > call[c].searches) =>
               call[c].tp = "bind" /\ call[c].binds = 1

\* C35 as stated: every call of loginUser, getAllGroups and getAllUsers issues
\* bind exactly once and never again, search at most once and only after
\* that bind has succeeded, and no search after a rejected bind
C35_BindOnceThenSearch == [][\A c \in Calls : BindThenSearch(c, 1)]_vars

\* C35: the same with exactly one bind for credentials that are strings and
\* none for credentials the method raises on
C35_BindOnceForStrings ==
    [][\A c \in Calls : BindThenSearch(c, ExpectedBinds(call'[c]))]_vars

\* a search has followed the one bind of a call and has ended
C35_Witness ==
    \E c \in Calls :
        /\ call[c].binds = 1 /\ call[c].searches = 1
        /\ call[c].bindErr = Undefined /\ call[c].ended

(***************************************************************************)
(* A search that could not be started (Spec).                              *)
(***************************************************************************)
\* C36: when client.search answers its callback with an error e, the call
\* returns a failure whose error is e itself, and nothing raises: no other
\* error takes the place of e and nothing is registered on the result
\* stream that does not exist
C36_SearchErrorIsReturned ==
    \A c \in Calls :
        (call[c].promise # "none" /\ call[c].searchErr # Undefined) =>
            /\ ~call[c].uncaught
            /\ Settled(c)
            /\ call[c].result.success = FALSE
            /\ call[c].result.error = call[c].searchErr

(***************************************************************************)
(* Records the decoders raise on (Spec).                                   *)
(***************************************************************************)
\* a detailed getAllGroups or formatted getAllUsers of the async revision
\* whose search has ended with a record its decoder raises on
DecodingRaised(k) ==
    /\ k.ver = "async" /\ ListMethod(k) /\ Flagged(k)
    /\ k.promise # "none" /\ k.ended
    /\ \E i \in 1..Len(k.emitted) : ItemOf(k, k.emitted[i]).threw

\* C37: when decoding a record raises in a detailed getAllGroups or a
\* formatted getAllUsers, the call has released its connection when it
\* returns, and it returns a failure: it does not raise to its caller
C37_DecodingFailureReleases ==
    \A c \in Calls :
        DecodingRaised(call[c]) =>
            /\ call[c].promise = "resolved"
            /\ call[c].result.success = FALSE
            /\ call[c].unbindsAtSettle > 0

(***************************************************************************)
(* The releases of the promise-constructor loginUser (Spec).               *)
(***************************************************************************)
\* a promise-constructor loginUser with string credentials that has settled
EventLoginSettled(c) ==
    /\ call[c].ver = "event" /\ call[c].op = "loginUser" /\ Settled(c)
    /\ ~BindThrows(call[c].username, call[c].password)

\* C38: the promise-constructor loginUser has invoked client.unbind exactly
\* once when its promise settles, whether the bind was rejected, records
\* were found, none was found or the client emitted 'error', and events
\* after that release nothing again
C38_EventLoginUnbindsOnce ==
    \A c \in Calls :
        EventLoginSettled(c) => call[c].unbindsAtSettle = 1 /\ call[c].unbinds = 1

\* ------------------------------------------------------------------------
\* resolveGUID of two values

\* where two neighbouring bytes of the reference value are replaced, and by
\* what: bytes of one and of two hexadecimal digits
PairPositions == {1, 4, 8, 10, 15}
PairBytes == {0, 1, 16, 17}

PairValues ==
    {[ReferenceBytes EXCEPT ![i] = x, ![i + 1] = y] :
        i \in PairPositions, x \in PairBytes, y \in PairBytes}

InitGUIDPair ==
    /\ callers = {}
    /\ this = ActiveDirectory(DefaultConfig)
    /\ past = NoOverrides
    /\ call = [c \in Calls |-> IdleCall]
    /\ arg \in PairValues \X PairValues
    /\ ret = NotApplied

\* resolveGUID of an entry with the one value and of an entry with the other
ApplyResolveGUIDPair ==
    /\ arg \in PairValues \X PairValues
    /\ ret = NotApplied
    /\ ret' = Applied(<<resolveGUID(GUIDEntry(<<GUIDAttribute(arg[1])>>)),
                        resolveGUID(GUIDEntry(<<OtherAttribute, GUIDAttribute(arg[2])>>))>>)
    /\ UNCHANGED <<callers, call, this, past, arg>>

NextGUIDPair == ApplyResolveGUIDPair

SpecGUIDPair == InitGUIDPair /\ [][NextGUIDPair]_vars

\* the byte offsets of the five parts, one after the other
AllOffsets == guidFormat[1] \o guidFormat[2] \o guidFormat[3] \o guidFormat[4] \o guidFormat[5]

\* C39: the five parts of guidFormat name every byte offset 0..15 exactly
\* once, and resolveGUID gives two 16-byte values that differ in a byte two
\* different strings
C39_Injective ==
    /\ Len(AllOffsets) = 16
    /\ \A b \in 0..15 : \E i \in 1..16 : AllOffsets[i] = b
    /\ ret.applied =>
           /\ ~ret.value[1].threw /\ ~ret.value[2].threw
           /\ arg[1] # arg[2] => ret.value[1].value # ret.value[2].value

\* two values that differ in byte 0 alone, 01 and 10, have two strings
C39_Witness ==
    /\ ret.applied
    /\ arg[1] = [ReferenceBytes EXCEPT ![1] = 1, ![2] = 0]
    /\ arg[2] = [ReferenceBytes EXCEPT ![1] = 16, ![2] = 0]
    /\ ret.value[1].value # ret.value[2].value

(***************************************************************************)
(* A filter in the Configuration (SpecRequests).                           *)
(***************************************************************************)
\* an async loginUser without a search override, on an instance whose
\* searchOptions hold a filter, has issued its search
ConfiguredLoginSearched(c) ==
    /\ LoginSearched(c)
    /\ call[c].customSearch = Undefined
    /\ Get(this.searchOptions, "filter") # Undefined

\* C40: with a filter in the searchOptions of the instance and no search
\* override, loginUser searches with the filter made of the username, not
\* with the configured one; the other configured options are kept
C40_UserFilterOverConfigured ==
    \A c \in Calls :
        ConfiguredLoginSearched(c) =>
            /\ Get(call[c].sentSearch, "filter") # Get(this.searchOptions, "filter")
            /\ Get(call[c].sentSearch, "filter") =
                   Str(<<"(">> \o ExpectedType(call[c].username.s) \o <<"=">>
                       \o ExpectedUser(call[c].username.s) \o <<")">>)
            /\ \A key \in DOMAIN this.searchOptions.f \ {"filter"} :
                   Get(call[c].sentSearch, key) = this.searchOptions.f[key]

\* on the instance configured with the filter (cn=x), 'u@d' has been searched
\* as (userPrincipalName=u@d)
C40_Witness ==
    \E c \in Calls :
        /\ ConfiguredLoginSearched(c)
        /\ Get(this.searchOptions, "filter") = Str(<<"(cn=x)">>)
        /\ Get(call[c].sentSearch, "filter") =
               Str(<<"(", "userPrincipalName", "=", "u", "@", "d", ")">>)

====
